---- MODULE Spec2Model ----
(***************************************************************************)
(* Callisto memory store: the Profile Store (src/src/user_store.py), the   *)
(* Log Store (src/src/conversation_store.py), their file helpers           *)
(* (src/src/file_utils.py) and the facade (src/src/callisto.py), as a      *)
(* state machine over the directories of profile documents and of logs.    *)
(*                                                                         *)
(* A Python string is a sequence of one-character strings, so that the     *)
(* UUID pattern, substring tests and lexicographic comparison are computed *)
(* character by character.  A JSON value is a tagged record:               *)
(*   [t |-> "str", s |-> chars]      [t |-> "num",  n |-> integer]         *)
(*   [t |-> "list", items |-> seq]   [t |-> "dict", d |-> function on keys] *)
(* Each tag has its own payload field, so values of different types are   *)
(* unequal records and never have their payloads compared.                *)
(* Dictionary keys are TLA+ strings; Python dictionary equality ignores    *)
(* insertion order, and so does equality of functions.                     *)
(***************************************************************************)
EXTENDS Integers, Sequences, FiniteSets, TLC

VARIABLES users,   \* the directory users/: valid-looking uuid string -> stored document
          clock,   \* index of the current calendar day
          calls,   \* number of state-changing calls and day changes so far
          last,    \* the most recent call: operation, arguments, error raised, value returned
          logs,    \* the directory logs/: uuid string -> (file name -> text of the file)
          running  \* caller -> the call it is in the middle of: its position and its locals

vars == <<users, clock, calls, last, logs, running>>

(***************************************************************************)
(* Bounds of the exploration.                                              *)
(***************************************************************************)
MaxCalls == 3

(***************************************************************************)
(* Characters and strings.                                                 *)
(***************************************************************************)
Rep(c, n) == [i \in 1..n |-> c]

DigitChars == <<"0", "1", "2", "3", "4", "5", "6", "7", "8", "9">>

\* Code points of the characters the model uses (Python compares strings by code point).
Ord(c) ==
    CASE c = "\n" -> 10
      [] c = " " -> 32
      [] c = "," -> 44
      [] c = "-" -> 45
      [] c = "." -> 46
      [] c = "0" -> 48 [] c = "1" -> 49 [] c = "2" -> 50 [] c = "3" -> 51
      [] c = "4" -> 52 [] c = "5" -> 53 [] c = "6" -> 54 [] c = "7" -> 55
      [] c = "8" -> 56 [] c = "9" -> 57
      [] c = ":" -> 58
      [] c = "=" -> 61
      [] c = "[" -> 91 [] c = "]" -> 93
      [] c = "A" -> 65 [] c = "B" -> 66 [] c = "F" -> 70
      [] c = "_" -> 95
      [] c = "a" -> 97 [] c = "b" -> 98 [] c = "c" -> 99 [] c = "d" -> 100
      [] c = "e" -> 101 [] c = "f" -> 102 [] c = "g" -> 103
      [] c = "l" -> 108 [] c = "r" -> 114 [] c = "s" -> 115 [] c = "t" -> 116
      [] c = "u" -> 117 [] c = "x" -> 120 [] c = "y" -> 121
      [] OTHER -> 127

HexChars == {"0", "1", "2", "3", "4", "5", "6", "7", "8", "9",
             "a", "b", "c", "d", "e", "f", "A", "B", "C", "D", "E", "F"}

DashPositions == {9, 14, 19, 24}
HexPositions == (1..36) \ DashPositions

\* The 8-4-4-4-12 shape of the pattern, hex digits in either case.
MatchesPattern(s) ==
    /\ Len(s) = 36
    /\ \A i \in DashPositions : s[i] = "-"
    /\ \A i \in HexPositions : s[i] \in HexChars

\* re.match of '^...$': in Python "$" also matches just before one trailing newline.
PatternMatch(s) ==
    \/ MatchesPattern(s)
    \/ /\ Len(s) = 37
       /\ s[37] = "\n"
       /\ MatchesPattern(SubSeq(s, 1, 36))

\* Python's "needle in hay" for two strings.
IsSubstring(needle, hay) ==
    \E i \in 0..(Len(hay) - Len(needle)) :
        \A j \in 1..Len(needle) : hay[i + j] = needle[j]

\* Python's ordering of two strings: "lt", "eq" or "gt".
RECURSIVE StrCmp(_, _)
StrCmp(a, b) ==
    IF a = <<>> /\ b = <<>> THEN "eq"
    ELSE IF a = <<>> THEN "lt"
    ELSE IF b = <<>> THEN "gt"
    ELSE IF Ord(Head(a)) < Ord(Head(b)) THEN "lt"
    ELSE IF Ord(Head(a)) > Ord(Head(b)) THEN "gt"
    ELSE StrCmp(Tail(a), Tail(b))

\* Python's str methods on sequences of characters.
Whitespace == {" ", "\n", "\t", "\r"}

startswith(s, prefix) == Len(s) >= Len(prefix) /\ SubSeq(s, 1, Len(prefix)) = prefix
endswith(s, suffix) ==
    Len(s) >= Len(suffix) /\ SubSeq(s, Len(s) - Len(suffix) + 1, Len(s)) = suffix

\* The places of s, in order, whose character satisfies Test.
Places(s, Test(_)) == SelectSeq([i \in 1..Len(s) |-> i], LAMBDA i : Test(s[i]))

\* s.strip(): s without its leading and trailing whitespace
strip(s) ==
    LET inked == Places(s, LAMBDA c : c \notin Whitespace) IN
    IF inked = <<>> THEN <<>> ELSE SubSeq(s, inked[1], inked[Len(inked)])

\* s.split("\n"): the pieces between the newlines, at least one.
split(s) ==
    LET newlines == Places(s, LAMBDA c : c = "\n")
        n == Len(newlines)
        cut == [k \in 0..(n + 1) |-> IF k = 0 THEN 0
                                     ELSE IF k = n + 1 THEN Len(s) + 1 ELSE newlines[k]]
    IN  [k \in 1..(n + 1) |-> SubSeq(s, cut[k - 1] + 1, cut[k] - 1)]

\* "\n".join(lines)
RECURSIVE join(_)
join(lines) ==
    IF lines = <<>> THEN <<>>
    ELSE IF Len(lines) = 1 THEN lines[1]
    ELSE lines[1] \o <<"\n">> \o join(Tail(lines))

\* s.replace(old, ""), for a non-empty old
RECURSIVE remove(_, _)
remove(s, old) ==
    IF s = <<>> THEN <<>>
    ELSE IF startswith(s, old) THEN remove(SubSeq(s, Len(old) + 1, Len(s)), old)
    ELSE <<Head(s)>> \o remove(Tail(s), old)

(***************************************************************************)
(* The clock and datetime.now().strftime("%Y-%m-%d").                      *)
(***************************************************************************)
\* The day the clock shows: 2024-01-09, 2024-01-10, ...
Calendar(n) == [y |-> 2024, m |-> 1, d |-> 8 + n]

\* n written with exactly w decimal digits, zero padded.
RECURSIVE Pad(_, _)
Pad(n, w) == IF w = 0 THEN <<>> ELSE Pad(n \div 10, w - 1) \o <<DigitChars[(n % 10) + 1]>>

strftime(date) == Pad(date.y, 4) \o <<"-">> \o Pad(date.m, 2) \o <<"-">> \o Pad(date.d, 2)

Today == strftime(Calendar(clock))

\* datetime.now().strftime("%Y-%m-%d %H:%M:%S") and ("%Y%m%d%H%M%S"): the clock shows
\* midnight of its day.
TimestampOn(n) == strftime(Calendar(n)) \o <<" ", "0", "0", ":", "0", "0", ":", "0", "0">>
Timestamp == TimestampOn(clock)
CompactTimestamp ==
    Pad(Calendar(clock).y, 4) \o Pad(Calendar(clock).m, 2) \o Pad(Calendar(clock).d, 2)
    \o <<"0", "0", "0", "0", "0", "0">>

(***************************************************************************)
(* JSON values.                                                            *)
(***************************************************************************)
Str(s) == [t |-> "str", s |-> s]
Num(n) == [t |-> "num", n |-> n]
Lst(s) == [t |-> "list", items |-> s]
Dct(f) == [t |-> "dict", d |-> f]
None == [t |-> "none"]
Bool(b) == [t |-> "bool", b |-> b]

IsStr(x) == x.t = "str"
IsNum(x) == x.t = "num"
IsList(x) == x.t = "list"
IsDict(x) == x.t = "dict"

EmptyDict == [k \in {} |-> None]

\* d[k] = v
DictSet(d, k, v) == [x \in DOMAIN d \cup {k} |-> IF x = k THEN v ELSE d[x]]
\* del d[k] for the keys of ks that are present
DictDel(d, ks) == [x \in DOMAIN d \ ks |-> d[x]]
\* d.update(e)
DictUpdate(d, e) == [x \in DOMAIN d \cup DOMAIN e |-> IF x \in DOMAIN e THEN e[x] ELSE d[x]]

\* isinstance(x, dict) and key in x
HasKey(x, key) == IsDict(x) /\ key \in DOMAIN x.d

(***************************************************************************)
(* Python operators on JSON values.  A raised TypeError is the pseudo      *)
(* value TypeError, which no stored document contains.                     *)
(***************************************************************************)
TypeError == [t |-> "TypeError"]
Raised(x) == x.t = "TypeError"

DateAddedChars == <<"d", "a", "t", "e", "_", "a", "d", "d", "e", "d">>
DateDiscussedChars ==
    <<"d", "a", "t", "e", "_", "d", "i", "s", "c", "u", "s", "s", "e", "d">>

\* Python's  key in x  for a string literal key: "yes", "no" or "err" (TypeError).
PyIn(key, keyChars, x) ==
    IF IsDict(x) THEN (IF key \in DOMAIN x.d THEN "yes" ELSE "no")
    ELSE IF IsStr(x) THEN (IF IsSubstring(keyChars, x.s) THEN "yes" ELSE "no")
    ELSE IF IsList(x) THEN (IF \E i \in 1..Len(x.items) : x.items[i] = Str(keyChars) THEN "yes" ELSE "no")
    ELSE "err"

\* Python's ordering of two values: "lt", "eq", "gt", or "err" when < raises TypeError.
RECURSIVE PyCmp(_, _)
PyCmp(a, b) ==
    IF IsStr(a) /\ IsStr(b) THEN StrCmp(a.s, b.s)
    ELSE IF IsNum(a) /\ IsNum(b)
        THEN (IF a.n < b.n THEN "lt" ELSE IF a.n > b.n THEN "gt" ELSE "eq")
    ELSE IF IsList(a) /\ IsList(b)
        THEN (IF a.items = <<>> /\ b.items = <<>> THEN "eq"
              ELSE IF a.items = <<>> THEN "lt"
              ELSE IF b.items = <<>> THEN "gt"
              ELSE IF Head(a.items) = Head(b.items) THEN PyCmp(Lst(Tail(a.items)), Lst(Tail(b.items)))
              ELSE PyCmp(Head(a.items), Head(b.items)))
    ELSE "err"

\* Python's  a + b.
PyAdd(a, b) ==
    IF IsNum(a) /\ IsNum(b) THEN Num(a.n + b.n)
    ELSE IF IsStr(a) /\ IsStr(b) THEN Str(a.s \o b.s)
    ELSE IF IsList(a) /\ IsList(b) THEN Lst(a.items \o b.items)
    ELSE TypeError

\* The value stored for an argument `value`: a dict with a "value" member is kept,
\* stamped with date_added when it has none; anything else is wrapped as a fresh Fact.
WrapFact(value, now) ==
    IF HasKey(value, "value")
    THEN (IF "date_added" \in DOMAIN value.d THEN value
          ELSE Dct(DictSet(value.d, "date_added", Str(now))))
    ELSE Dct([value |-> value, date_added |-> Str(now)])

(***************************************************************************)
(* UserStore._merge_user_data                                              *)
(***************************************************************************)
\* [item.get("value") for item in items if isinstance(item, dict) and "value" in item]
RECURSIVE ExistingValues(_)
ExistingValues(items) ==
    IF items = <<>> THEN <<>>
    ELSE (IF HasKey(Head(items), "value") THEN <<Head(items).d["value"]>> ELSE <<>>)
         \o ExistingValues(Tail(items))

InSeq(x, s) == \E i \in 1..Len(s) : s[i] = x

\* the loop without the bookkeeping of the values it has appended
RECURSIVE MergeListsUntracked(_, _, _)
MergeListsUntracked(result, existing, source) ==
    IF source = <<>> THEN result
    ELSE LET item == Head(source) IN
         IF HasKey(item, "value") /\ ~InSeq(item.d["value"], existing)
         THEN MergeListsUntracked(Append(result, item), existing, Tail(source))
         ELSE MergeListsUntracked(result, existing, Tail(source))

\* The loop that appends the source items whose value is not yet among existing_values.
RECURSIVE MergeLists(_, _, _)
MergeLists(result, existing, source) ==
    IF source = <<>> THEN result
    ELSE LET item == Head(source) IN
         IF HasKey(item, "value") /\ ~InSeq(item.d["value"], existing)
         THEN MergeLists(Append(result, item), Append(existing, item.d["value"]), Tail(source))
         ELSE MergeLists(result, existing, Tail(source))

\* all("date_discussed" in item for item in items), left to right, stopping at the
\* first item that lacks the key: "yes", "no" or "err".
RECURSIVE AllDiscussed(_)
AllDiscussed(items) ==
    IF items = <<>> THEN "yes"
    ELSE LET r == PyIn("date_discussed", DateDiscussedChars, Head(items)) IN
         IF r = "yes" THEN AllDiscussed(Tail(items)) ELSE r

\* x inserted into a descending sequence behind every item whose key is not smaller.
RECURSIVE InsertDesc(_, _)
InsertDesc(sorted, x) ==
    IF sorted = <<>> THEN <<x>>
    ELSE IF PyCmp(Head(sorted).d["date_discussed"], x.d["date_discussed"]) = "lt"
         THEN <<x>> \o sorted
         ELSE <<Head(sorted)>> \o InsertDesc(Tail(sorted), x)

RECURSIVE SortDesc(_, _)
SortDesc(sorted, items) ==
    IF items = <<>> THEN sorted ELSE SortDesc(InsertDesc(sorted, Head(items)), Tail(items))

\* combined.sort(key=lambda x: x["date_discussed"], reverse=True): stable, descending.
\* The key function raises on an item that is not a mapping, and the comparison
\* raises on two keys Python cannot order.
SortByDateDiscussed(items) ==
    IF \E i \in 1..Len(items) : ~IsDict(items[i]) THEN TypeError
    ELSE IF \E i, j \in 1..Len(items) :
                i # j /\ PyCmp(items[i].d["date_discussed"], items[j].d["date_discussed"]) = "err"
         THEN TypeError
    ELSE Lst(SortDesc(<<>>, items))

TruncateTo == 10

\* the sub-field merge with >= in place of > between the two dates
MergeFieldSourceOnTie(field, fv, tcat, now) ==
    IF field = "last_modified" THEN Str(now)
    ELSE IF field \notin DOMAIN tcat \/ field = "total_conversations"
    THEN (IF field = "total_conversations"
          THEN PyAdd(IF field \in DOMAIN tcat THEN tcat[field] ELSE Num(0), fv)
          ELSE fv)
    ELSE IF HasKey(fv, "date_added")
    THEN LET tv == tcat[field]
             has == PyIn("date_added", DateAddedChars, tv)
         IN  IF has = "err" THEN TypeError
             ELSE IF has = "no" THEN tv
             ELSE IF ~IsDict(tv) THEN TypeError
             ELSE LET c == PyCmp(fv.d["date_added"], tv.d["date_added"]) IN
                  IF c = "err" THEN TypeError
                  ELSE IF c # "lt" THEN fv ELSE tv
    ELSE IF IsList(fv) /\ IsList(tcat[field])
    THEN LET combined == tcat[field].items \o fv.items IN
         IF field = "recent_topics"
         THEN LET every == AllDiscussed(combined) IN
              IF every = "err" THEN TypeError
              ELSE IF every = "no" THEN Lst(combined)
              ELSE LET sorted == SortByDateDiscussed(combined) IN
                   IF Raised(sorted) THEN TypeError
                   ELSE Lst(SubSeq(sorted.items, 1, IF Len(sorted.items) < TruncateTo
                                                  THEN Len(sorted.items) ELSE TruncateTo))
         ELSE Lst(combined)
    ELSE tcat[field]

\* One iteration of the loop over the sub-fields of a source category: the value
\* result[key][field] has afterwards. tcat is the target category, fv the source's value.
MergeField(field, fv, tcat, now) ==
    IF field = "last_modified" THEN Str(now)
    ELSE IF field \notin DOMAIN tcat \/ field = "total_conversations"
    THEN (IF field = "total_conversations"
          THEN PyAdd(IF field \in DOMAIN tcat THEN tcat[field] ELSE Num(0), fv)
          ELSE fv)
    ELSE IF HasKey(fv, "date_added")
    THEN LET tv == tcat[field]
             has == PyIn("date_added", DateAddedChars, tv)
         IN  IF has = "err" THEN TypeError
             ELSE IF has = "no" THEN tv
             ELSE IF ~IsDict(tv) THEN TypeError
             ELSE LET c == PyCmp(fv.d["date_added"], tv.d["date_added"]) IN
                  IF c = "err" THEN TypeError
                  ELSE IF c = "gt" THEN fv ELSE tv
    ELSE IF IsList(fv) /\ IsList(tcat[field])
    THEN LET combined == tcat[field].items \o fv.items IN
         IF field = "recent_topics"
         THEN LET every == AllDiscussed(combined) IN
              IF every = "err" THEN TypeError
              ELSE IF every = "no" THEN Lst(combined)
              ELSE LET sorted == SortByDateDiscussed(combined) IN
                   IF Raised(sorted) THEN TypeError
                   ELSE Lst(SubSeq(sorted.items, 1, IF Len(sorted.items) < TruncateTo
                                                  THEN Len(sorted.items) ELSE TruncateTo))
         ELSE Lst(combined)
    ELSE tcat[field]

\* The loop over a source category merged into a target category.
MergeCategory(scat, tcat, now) ==
    LET merged == [f \in DOMAIN tcat \cup DOMAIN scat |->
                      IF f \in DOMAIN scat THEN MergeField(f, scat[f], tcat, now)
                      ELSE tcat[f]]
    IN  IF \E f \in DOMAIN merged : Raised(merged[f]) THEN TypeError ELSE Dct(merged)

\* the iteration that lets the source's value win where no rule applies
MergeKeySourceWins(key, value, result) ==
    IF key \notin DOMAIN result THEN value
    ELSE IF IsList(value) /\ IsList(result[key])
    THEN Lst(MergeLists(result[key].items, ExistingValues(result[key].items), value.items))
    ELSE IF IsDict(value) /\ IsDict(result[key])
    THEN MergeCategory(value.d, result[key].d, Today)
    ELSE value

\* One iteration of the loop over the source's top-level keys: the value result[key]
\* has afterwards. result is the copy of target with last_modified already stamped.
MergeKey(key, value, result) ==
    IF key \notin DOMAIN result THEN value
    ELSE IF IsList(value) /\ IsList(result[key])
    THEN Lst(MergeLists(result[key].items, ExistingValues(result[key].items), value.items))
    ELSE IF IsDict(value) /\ IsDict(result[key])
    THEN MergeCategory(value.d, result[key].d, Today)
    ELSE result[key]

\* The merged document, or TypeError when an iteration raises.
merge_user_data(source_data, target_data) ==
    LET result == DictSet(target_data, "last_modified", Str(Today))
        keys == DOMAIN source_data \ {"uuid", "created"}
        merged == [k \in DOMAIN result \cup keys |->
                      IF k \in keys THEN MergeKey(k, source_data[k], result) ELSE result[k]]
    IN  IF \E k \in DOMAIN merged : Raised(merged[k]) THEN TypeError ELSE Dct(merged)

(***************************************************************************)
(* Arguments the callers supply.                                           *)
(***************************************************************************)
Canon(c) == Rep(c, 8) \o <<"-">> \o Rep(c, 4) \o <<"-">> \o Rep(c, 4) \o <<"-">>
            \o Rep(c, 4) \o <<"-">> \o Rep(c, 12)

U1 == Canon("1")
U2 == Canon("A")
U1Newline == U1 \o <<"\n">>   \* not canonical, yet accepted by the pattern
BadId == Canon("g")           \* right shape, but "g" is no hex digit
NoId == <<>>

Ids == {U1, U2, U1Newline, BadId}

\* _is_valid_uuid, tabulated once over the identifiers the callers use.
ValidTable == [s \in Ids |-> PatternMatch(s)]
is_valid_uuid(s) == ValidTable[s]

QueryIds == {U1, U1Newline, BadId}
MergePairs == {<<U1, U2>>, <<U2, U1>>, <<U1, U1>>, <<BadId, U2>>, <<U1, BadId>>, <<U1Newline, U2>>}

Blue == Str(<<"b", "l", "u", "e">>)
Red == Str(<<"r", "e", "d">>)
OldDate == Str(<<"1", "9", "9", "9", "-", "0", "1", "-", "0", "1">>)

\* initial_data of create_user
NastyInit == Dct([uuid |-> Str(U2), created |-> OldDate, last_modified |-> OldDate])
SeedInit ==
    Dct([prefs |-> Dct([color |-> Dct([value |-> Red, date_added |-> OldDate]),
                        total_conversations |-> Num(2)]),
         topics |-> Lst(<<Dct([value |-> Red, date_added |-> OldDate])>>)])

\* (uuid, initial_data) of create_user
CreateArgs ==
    { <<U1, None>>, <<U1, NastyInit>>, <<U1, SeedInit>>,
      <<U2, None>>, <<U2, SeedInit>>,
      <<U1Newline, None>>,
      <<BadId, None>> }

\* (uuid, data) of update_user
UpdateArgs ==
    { <<U1, [uuid |-> Str(U2), created |-> OldDate, nick |-> Blue]>>,
      <<U1, [last_modified |-> Lst(<<>>)]>>,
      <<U1, [last_modified |-> Dct(EmptyDict)]>>,
      <<U2, [last_modified |-> OldDate]>>,
      <<BadId, [nick |-> Blue]>> }

\* (uuid, category, field, value) of update_category_field
CategoryArgs ==
    { <<U1, "prefs", "color", Blue>>,
      <<U1, "prefs", "color", Dct([value |-> Red])>>,
      <<U1, "prefs", "last_modified", Blue>>,
      <<U1, "topics", "color", Blue>>,
      <<U1, "last_modified", "color", Blue>>,
      <<U1, "uuid", "color", Blue>>,
      <<BadId, "prefs", "color", Blue>> }

\* (uuid, list_name, value) of add_to_list
ListArgs ==
    { <<U1, "topics", Blue>>,
      <<U1, "topics", Dct([value |-> Red])>>,
      <<U1, "prefs", Blue>>,
      <<U1, "last_modified", Blue>>,
      <<U1, "created", Blue>>,
      <<BadId, "topics", Blue>> }

\* Documents handed to create_user as initial_data before a merge.
Date(y, m, d) == Str(strftime([y |-> y, m |-> m, d |-> d]))
Jan1 == Date(2024, 1, 1)
Jun1 == Date(2024, 6, 1)
Jun1Short == Str(<<"2", "0", "2", "4", "-", "6", "-", "0", "1">>)   \* not zero padded
Green == Str(<<"g", "r", "e", "e", "n">>)

Fact(v, date) == Dct([value |-> v, date_added |-> date])
Topic(v, date) == Dct([topic |-> v, date_discussed |-> date])

\* six dated topics, on the odd or the even days of a fortnight
OddTopics == Lst([i \in 1..6 |-> Topic(Red, Date(2024, 1, 2 * i - 1))])
EvenTopics == Lst([i \in 1..6 |-> Topic(Blue, Date(2024, 1, 2 * i))])
FewTopics == Lst(<<Topic(Green, Date(2024, 1, 4)), Topic(Green, Date(2024, 1, 20))>>)
UndatedTopics == Lst(<<Topic(Green, Jun1), Dct([topic |-> Green])>>)

MergeExtras ==
    { None,
      Dct([prefs |-> Dct([color |-> Fact(Red, Jan1), total_conversations |-> Num(2),
                          recent_topics |-> OddTopics, history |-> FewTopics,
                          last_modified |-> Jan1]),
           topics |-> Lst(<<Fact(Red, Jan1), Fact(Blue, Jan1)>>),
           nick |-> Red, alias |-> Red]),
      Dct([prefs |-> Dct([color |-> Fact(Blue, Jun1), total_conversations |-> Num(3),
                          recent_topics |-> EvenTopics, history |-> OddTopics,
                          shade |-> Fact(Green, Jun1)]),
           topics |-> Lst(<<Fact(Blue, Jun1), Fact(Green, Jun1), Fact(Green, Jan1), Red,
                            Dct([value |-> Red])>>),
           nick |-> Blue]),
      Dct([prefs |-> Dct([color |-> Fact(Green, Jan1), recent_topics |-> FewTopics,
                          history |-> EvenTopics, nick |-> Red]),
           topics |-> Lst(<<Fact(Green, Jan1), Fact(Green, Jun1), Blue>>)]),
      Dct([prefs |-> Dct([color |-> Fact(Red, Jun1Short), recent_topics |-> UndatedTopics,
                          nick |-> Blue, shade |-> Lst(<<>>)]),
           topics |-> Lst(<<>>)]),
      Dct([prefs |-> Dct([color |-> Blue, shade |-> Fact(Red, Jan1),
                          recent_topics |-> Fact(Red, Jan1)])]),
      Dct([prefs |-> Dct([color |-> Lst(<<Fact(Red, Jan1)>>), shade |-> Dct([value |-> Red]),
                          recent_topics |-> EvenTopics])]),
      Dct([prefs |-> Dct([color |-> Num(5), nick |-> Num(1)])]),
      Dct([prefs |-> Lst(<<Fact(Red, Jan1)>>), topics |-> Dct([color |-> Fact(Red, Jan1)]),
           nick |-> Num(1)]) }

(***************************************************************************)
(* The blob helpers of file_utils.py on the users/ directory.  Documents    *)
(* are JSON values with string keys, which json.dump and json.load return  *)
(* unchanged.                                                              *)
(***************************************************************************)
\* A file whose bytes are no JSON text; no document the callers write has this shape.
NotJson == [malformed |-> None]
\* None for a missing file and for one json.load cannot decode.
read_json_file(dir, u) == IF u \in DOMAIN dir /\ dir[u] # NotJson THEN Dct(dir[u]) ELSE None
write_json_file(dir, u, data) == [x \in DOMAIN dir \cup {u} |-> IF x = u THEN data ELSE dir[x]]
delete_file_keeps(dir, u) == dir
delete_file(dir, u) == [x \in DOMAIN dir \ {u} |-> dir[x]]

user_exists(u) == is_valid_uuid(u) /\ u \in DOMAIN users

(***************************************************************************)
(* The record of a call, and the step every handler ends with.             *)
(***************************************************************************)
Call(op, a, b, key, field, val, err, ret) ==
    [op |-> op, a |-> a, b |-> b, key |-> key, field |-> field, val |-> val,
     err |-> err, ret |-> ret]

\* No caller is in the middle of a call: every call below runs from start to end in
\* one step.
NoCalls == [p \in {} |-> None]

Step(dir, call) ==
    /\ dir # users => calls < MaxCalls
    /\ users' = dir
    /\ calls' = IF dir # users THEN calls + 1 ELSE calls
    /\ last' = call
    /\ UNCHANGED <<clock, logs, running>>

Fail(call) == Step(users, call)

(***************************************************************************)
(* UserStore operations.                                                   *)
(***************************************************************************)
UserExists(u) ==
    Step(users, Call("exists", u, NoId, "", "", None, "", Bool(user_exists(u))))

GetUserData(u) ==
    IF ~is_valid_uuid(u)
    THEN Fail(Call("read", u, NoId, "", "", None, "InvalidIdentifier", None))
    ELSE Step(users, Call("read", u, NoId, "", "", None, "", read_json_file(users, u)))

\* The document create_user builds.
NewUser(u, initial_data) ==
    LET seed == [uuid |-> Str(u), created |-> Str(Today), last_modified |-> Str(Today)]
    IN  IF IsDict(initial_data) /\ DOMAIN initial_data.d # {}
        THEN DictUpdate(seed, DictDel(initial_data.d, {"uuid", "created"}))
        ELSE seed

\* create_user without the test for an existing profile
CreateUserOverwrites(u, initial_data) ==
    IF ~is_valid_uuid(u)
    THEN Fail(Call("create", u, NoId, "", "", initial_data, "InvalidIdentifier", None))
    ELSE LET user_data == NewUser(u, initial_data) IN
         Step(write_json_file(users, u, user_data),
              Call("create", u, NoId, "", "", initial_data, "", Dct(user_data)))

CreateUser(u, initial_data) ==
    IF ~is_valid_uuid(u)
    THEN Fail(Call("create", u, NoId, "", "", initial_data, "InvalidIdentifier", None))
    ELSE IF user_exists(u)
    THEN Fail(Call("create", u, NoId, "", "", initial_data, "AlreadyExists", None))
    ELSE LET user_data == NewUser(u, initial_data) IN
         Step(write_json_file(users, u, user_data),
              Call("create", u, NoId, "", "", initial_data, "", Dct(user_data)))

\* The document update_user builds from the stored one.
UpdatedUserAnyKey(stored, data) ==
    DictUpdate(DictSet(stored, "last_modified", Str(Today)), data)

UpdatedUser(stored, data) ==
    DictUpdate(DictSet(stored, "last_modified", Str(Today)), DictDel(data, {"uuid", "created"}))

UpdateUser(u, data) ==
    IF ~is_valid_uuid(u)
    THEN Fail(Call("update", u, NoId, "", "", Dct(data), "InvalidIdentifier", None))
    ELSE IF ~user_exists(u)
    THEN Fail(Call("update", u, NoId, "", "", Dct(data), "NotFound", None))
    ELSE IF ~IsDict(read_json_file(users, u))
    THEN Fail(Call("update", u, NoId, "", "", Dct(data), "TypeError", None))
    ELSE LET user_data == UpdatedUser(users[u], data) IN
         Step(write_json_file(users, u, user_data),
              Call("update", u, NoId, "", "", Dct(data), "", Dct(user_data)))

\* The document update_category_field builds, once the category is known to be a mapping.
\* the same, forgetting the category's own last_modified
CategoryFieldSetUnstamped(withCategory, category, field, value) ==
    LET stored == DictSet(withCategory[category].d, field, WrapFact(value, Today))
    IN  DictSet(DictSet(withCategory, category, Dct(stored)), "last_modified", Str(Today))

CategoryFieldSet(withCategory, category, field, value) ==
    LET stored == DictSet(withCategory[category].d, field, WrapFact(value, Today))
        stamped == DictSet(stored, "last_modified", Str(Today))
    IN  DictSet(DictSet(withCategory, category, Dct(stamped)), "last_modified", Str(Today))

UpdateCategoryField(u, category, field, value) ==
    IF ~is_valid_uuid(u)
    THEN Fail(Call("set_field", u, NoId, category, field, value, "InvalidIdentifier", None))
    ELSE IF ~user_exists(u)
    THEN Fail(Call("set_field", u, NoId, category, field, value, "NotFound", None))
    ELSE IF ~IsDict(read_json_file(users, u))
    THEN Fail(Call("set_field", u, NoId, category, field, value, "TypeError", None))
    ELSE LET withCategory == IF category \in DOMAIN users[u] THEN users[u]
                             ELSE DictSet(users[u], category, Dct(EmptyDict))
         IN  IF ~IsDict(withCategory[category])
             THEN Fail(Call("set_field", u, NoId, category, field, value, "TypeMismatch", None))
             ELSE LET user_data == CategoryFieldSet(withCategory, category, field, value) IN
                  Step(write_json_file(users, u, user_data),
                       Call("set_field", u, NoId, category, field, value, "", Dct(user_data)))

\* The document add_to_list builds, once list_name is known to be a sequence.
ListAppended(withList, list_name, value) ==
    DictSet(DictSet(withList, list_name, Lst(Append(withList[list_name].items, WrapFact(value, Today)))),
            "last_modified", Str(Today))

\* add_to_list that starts a fresh list over a value of another shape
AddToListReplaces(u, list_name, value) ==
    IF ~is_valid_uuid(u)
    THEN Fail(Call("append", u, NoId, list_name, "", value, "InvalidIdentifier", None))
    ELSE IF ~user_exists(u)
    THEN Fail(Call("append", u, NoId, list_name, "", value, "NotFound", None))
    ELSE LET withList == IF list_name \in DOMAIN users[u] /\ IsList(users[u][list_name])
                         THEN users[u]
                         ELSE DictSet(users[u], list_name, Lst(<<>>))
         IN  LET user_data == ListAppended(withList, list_name, value) IN
             Step(write_json_file(users, u, user_data),
                  Call("append", u, NoId, list_name, "", value, "", Dct(user_data)))

AddToList(u, list_name, value) ==
    IF ~is_valid_uuid(u)
    THEN Fail(Call("append", u, NoId, list_name, "", value, "InvalidIdentifier", None))
    ELSE IF ~user_exists(u)
    THEN Fail(Call("append", u, NoId, list_name, "", value, "NotFound", None))
    ELSE IF ~IsDict(read_json_file(users, u))
    THEN Fail(Call("append", u, NoId, list_name, "", value, "TypeError", None))
    ELSE LET withList == IF list_name \in DOMAIN users[u] THEN users[u]
                         ELSE DictSet(users[u], list_name, Lst(<<>>))
         IN  IF ~IsList(withList[list_name])
             THEN Fail(Call("append", u, NoId, list_name, "", value, "TypeMismatch", None))
             ELSE LET user_data == ListAppended(withList, list_name, value) IN
                  Step(write_json_file(users, u, user_data),
                       Call("append", u, NoId, list_name, "", value, "", Dct(user_data)))

DeleteUser(u) ==
    IF ~is_valid_uuid(u)
    THEN Fail(Call("delete", u, NoId, "", "", None, "InvalidIdentifier", None))
    ELSE Step(delete_file(users, u),
              Call("delete", u, NoId, "", "", None, "", Bool(u \in DOMAIN users)))

\* merge_users that forgets to delete the source
MergeUsersKeepsSource(source_uuid, target_uuid) ==
    IF ~is_valid_uuid(source_uuid) \/ ~is_valid_uuid(target_uuid)
    THEN Fail(Call("merge", source_uuid, target_uuid, "", "", None, "InvalidIdentifier", None))
    ELSE IF source_uuid = target_uuid
    THEN Fail(Call("merge", source_uuid, target_uuid, "", "", None, "SameIdentifier", None))
    ELSE IF ~user_exists(source_uuid)
    THEN Fail(Call("merge", source_uuid, target_uuid, "", "", None, "NotFound", None))
    ELSE LET withTarget == IF user_exists(target_uuid) THEN users
                           ELSE write_json_file(users, target_uuid, NewUser(target_uuid, None))
             merged_data == merge_user_data(withTarget[source_uuid], withTarget[target_uuid])
         IN  IF Raised(merged_data)
             THEN Step(withTarget,
                       Call("merge", source_uuid, target_uuid, "", "", None, "TypeError", None))
             ELSE Step(write_json_file(withTarget, target_uuid, merged_data.d),
                       Call("merge", source_uuid, target_uuid, "", "", None, "", merged_data))

\* What merge_users leaves and answers: the stored profiles, the error it raises ("" for
\* none) and the document it returns.
merge_users(dir, source_uuid, target_uuid) ==
    IF ~is_valid_uuid(source_uuid) \/ ~is_valid_uuid(target_uuid)
    THEN [dir |-> dir, err |-> "InvalidIdentifier", ret |-> None]
    ELSE IF source_uuid = target_uuid
    THEN [dir |-> dir, err |-> "SameIdentifier", ret |-> None]
    ELSE IF source_uuid \notin DOMAIN dir
    THEN [dir |-> dir, err |-> "NotFound", ret |-> None]
    ELSE LET withTarget == IF target_uuid \in DOMAIN dir THEN dir
                           ELSE write_json_file(dir, target_uuid, NewUser(target_uuid, None))
             source_data == read_json_file(withTarget, source_uuid)
             target_data == read_json_file(withTarget, target_uuid)
             merged_data == merge_user_data(source_data.d, target_data.d)
         IN  IF ~IsDict(source_data) \/ ~IsDict(target_data)
             THEN [dir |-> withTarget, err |-> "AttributeError", ret |-> None]
             ELSE IF Raised(merged_data)
             THEN [dir |-> withTarget, err |-> "TypeError", ret |-> None]
             ELSE [dir |-> delete_file(write_json_file(withTarget, target_uuid, merged_data.d),
                                       source_uuid),
                   err |-> "", ret |-> merged_data]

MergeUsers(source_uuid, target_uuid) ==
    LET done == merge_users(users, source_uuid, target_uuid) IN
    Step(done.dir, Call("merge", source_uuid, target_uuid, "", "", None, done.err, done.ret))

(***************************************************************************)
(* ConversationStore operations.  A user's log directory is the function   *)
(* from the names of its files to their text; every operation creates the  *)
(* directory before it uses it, so a missing directory and an empty one    *)
(* are the same value.                                                     *)
(***************************************************************************)
TxtExtension == <<".", "t", "x", "t">>
HeaderMarker == <<"=", "=", "=">>
HeaderOpen == <<"=", "=", "=", " ", "C", "o", "n", "v", "e", "r", "s", "a", "t", "i", "o", "n", " ", "s", "t", "a", "r", "t", "e", "d", " ", "o", "n", " ">>
HeaderClose == <<" ", "=", "=", "=", "\n", "\n">>

NoFiles == [f \in {} |-> <<>>]
LogDirs == {u \in Ids : is_valid_uuid(u)}

\* the file name within the user's directory
get_log_file_path(log_name) ==
    IF endswith(log_name, TxtExtension) THEN log_name ELSE log_name \o TxtExtension

\* the path an operation returns
PathOf(u, file) == Str(u \o <<"/">> \o file)

read_text_file(dir, u, file) == IF file \in DOMAIN dir[u] THEN Str(dir[u][file]) ELSE None
write_text_file(dir, u, file, text) ==
    [dir EXCEPT ![u] = [f \in DOMAIN dir[u] \cup {file} |-> IF f = file THEN text ELSE dir[u][f]]]
remove_file(dir, u, file) == [dir EXCEPT ![u] = [f \in DOMAIN dir[u] \ {file} |-> dir[u][f]]]

\* The arguments of a log call, as recorded in `last`.
LogArgs(log_name, text) == Dct([log_name |-> Str(log_name), text |-> Str(text)])

LogStep(dir, call) ==
    /\ dir # logs => calls < MaxCalls
    /\ logs' = dir
    /\ calls' = IF dir # logs THEN calls + 1 ELSE calls
    /\ last' = call
    /\ UNCHANGED <<users, clock, running>>

Header == HeaderOpen \o Timestamp \o HeaderClose

LogExists(u, log_name) ==
    LogStep(logs, Call("log_exists", u, NoId, "", "", LogArgs(log_name, <<>>), "",
                       Bool(is_valid_uuid(u) /\ get_log_file_path(log_name) \in DOMAIN logs[u])))

StoreConversation(u, log_name, content) ==
    IF ~is_valid_uuid(u)
    THEN LogStep(logs, Call("store", u, NoId, "", "", LogArgs(log_name, content),
                            "InvalidIdentifier", None))
    ELSE LET file == get_log_file_path(log_name)
             text == IF ~startswith(strip(content), HeaderMarker)
                     THEN Header \o content ELSE content
         IN  LogStep(write_text_file(logs, u, file, text),
                     Call("store", u, NoId, "", "", LogArgs(log_name, content), "",
                          PathOf(u, file)))

\* The text of the file after append_to_conversation.
Appended(existing, message, with_timestamp) ==
    LET base == IF IsStr(existing) THEN existing.s ELSE Header
        formatted_message == IF with_timestamp
                             THEN <<"[">> \o Timestamp \o <<"]", " ">> \o message \o <<"\n">>
                             ELSE message \o <<"\n">>
    IN  base \o formatted_message

AppendToConversation(u, log_name, message, with_timestamp) ==
    LET args == Dct([log_name |-> Str(log_name), text |-> Str(message),
                     with_timestamp |-> Bool(with_timestamp)])
    IN  IF ~is_valid_uuid(u)
        THEN LogStep(logs, Call("log_append", u, NoId, "", "", args, "InvalidIdentifier", None))
        ELSE LET file == get_log_file_path(log_name)
                 text == Appended(read_text_file(logs, u, file), message, with_timestamp)
             IN  LogStep(write_text_file(logs, u, file, text),
                         Call("log_append", u, NoId, "", "", args, "", PathOf(u, file)))

GetConversation(u, log_name) ==
    IF ~is_valid_uuid(u)
    THEN LogStep(logs, Call("log_read", u, NoId, "", "", LogArgs(log_name, <<>>),
                            "InvalidIdentifier", None))
    ELSE LogStep(logs, Call("log_read", u, NoId, "", "", LogArgs(log_name, <<>>), "",
                            read_text_file(logs, u, get_log_file_path(log_name))))

\* list_files(directory, ".txt"): os.listdir returns the names in an arbitrary order.
list_files(dir, u) == {f \in DOMAIN dir[u] : endswith(f, TxtExtension)}
Orders(files) ==
    {order \in [1..Cardinality(files) -> files] :
        \A i, j \in DOMAIN order : i # j => order[i] # order[j]}

\* each listed name with every ".txt" removed
ListConversations(u) ==
    IF ~is_valid_uuid(u)
    THEN LogStep(logs, Call("log_list", u, NoId, "", "", None, "InvalidIdentifier", None))
    ELSE \E order \in Orders(list_files(logs, u)) :
               LogStep(logs, Call("log_list", u, NoId, "", "", None, "",
                                  Lst([i \in DOMAIN order |-> Str(remove(order[i], TxtExtension))])))

DeleteConversation(u, log_name) ==
    IF ~is_valid_uuid(u)
    THEN LogStep(logs, Call("log_delete", u, NoId, "", "", LogArgs(log_name, <<>>),
                            "InvalidIdentifier", None))
    ELSE LET file == get_log_file_path(log_name) IN
         LogStep(remove_file(logs, u, file),
                 Call("log_delete", u, NoId, "", "", LogArgs(log_name, <<>>), "",
                      Bool(file \in DOMAIN logs[u])))

MultiHeaderOpen == <<"=", "=", "=", " ", "M", "u", "l", "t", "i", "-", "u", "s", "e", "r", " ", "c", "o", "n", "v", "e", "r", "s", "a", "t", "i", "o", "n", " ", "s", "t", "a", "r", "t", "e", "d", " ", "o", "n", " ">>
MultiHeaderClose == <<" ", "=", "=", "=", "\n">>
ParticipantsOpen == <<"=", "=", "=", " ", "P", "a", "r", "t", "i", "c", "i", "p", "a", "n", "t", "s", ":", " ">>
CommaSpace == <<",", " ">>

\* ', '.join(uuids)
RECURSIVE JoinIds(_)
JoinIds(uuids) ==
    IF uuids = <<>> THEN <<>>
    ELSE IF Len(uuids) = 1 THEN uuids[1]
    ELSE uuids[1] \o CommaSpace \o JoinIds(Tail(uuids))

\* the loop that writes the text into each participant's directory
RECURSIVE WriteEach(_, _, _, _)
WriteEach(dir, uuids, file, text) ==
    IF uuids = <<>> THEN dir
    ELSE WriteEach(write_text_file(dir, Head(uuids), file, text), Tail(uuids), file, text)

MultiArgs(uuids, log_name, content) ==
    Dct([uuids |-> Lst([i \in DOMAIN uuids |-> Str(uuids[i])]),
         log_name |-> Str(log_name), text |-> Str(content)])

\* the text store_multi_user_conversation writes
MultiText(uuids, content) ==
    IF ~startswith(strip(content), HeaderMarker)
    THEN MultiHeaderOpen \o Timestamp \o MultiHeaderClose
         \o ParticipantsOpen \o JoinIds(uuids) \o HeaderClose \o content
    ELSE content

\* the log directories after store_multi_user_conversation, unchanged when it raises
StoreMulti(ldir, uuids, log_name, content) ==
    IF uuids = <<>> \/ \E i \in DOMAIN uuids : ~is_valid_uuid(uuids[i])
    THEN ldir
    ELSE WriteEach(ldir, uuids, get_log_file_path(log_name), MultiText(uuids, content))

StoreMultiUserConversation(uuids, log_name, content) ==
    LET err == IF uuids = <<>> THEN "Empty"
               ELSE IF \E i \in DOMAIN uuids : ~is_valid_uuid(uuids[i])
                    THEN "InvalidIdentifier" ELSE ""
        file == get_log_file_path(log_name)
    IN  LogStep(StoreMulti(logs, uuids, log_name, content),
                Call("store_multi", NoId, NoId, "", "", MultiArgs(uuids, log_name, content), err,
                     IF err = "" THEN Lst([i \in DOMAIN uuids |-> PathOf(uuids[i], file)])
                     ELSE None))

MergedInfix == <<"_", "m", "e", "r", "g", "e", "d", "_">>

\* the name a source log gets in the target directory
TargetName(tfiles, file) ==
    IF file \in DOMAIN tfiles
    THEN remove(file, TxtExtension) \o MergedInfix \o CompactTimestamp \o TxtExtension
    ELSE file

\* The loop of move_conversations over the listed source logs: each is copied into the
\* target directory (shutil.copy2 replaces a file of that name) and removed from the
\* source directory.
RECURSIVE MoveEach(_, _, _, _)
MoveEach(dir, source, target, files) ==
    IF files = <<>> THEN dir
    ELSE LET file == Head(files)
             name == TargetName(dir[target], file)
             copied == write_text_file(dir, target, name, dir[source][file])
         IN  MoveEach(remove_file(copied, source, file), source, target, Tail(files))

\* the paths the loop returns
RECURSIVE MovedPaths(_, _, _, _)
MovedPaths(dir, source, target, files) ==
    IF files = <<>> THEN <<>>
    ELSE LET file == Head(files)
             name == TargetName(dir[target], file)
             copied == write_text_file(dir, target, name, dir[source][file])
         IN  <<PathOf(target, name)>>
             \o MovedPaths(remove_file(copied, source, file), source, target, Tail(files))

MoveConversations(source_uuid, target_uuid) ==
    IF ~is_valid_uuid(source_uuid) \/ ~is_valid_uuid(target_uuid)
    THEN LogStep(logs, Call("relocate", source_uuid, target_uuid, "", "", None,
                            "InvalidIdentifier", None))
    ELSE IF source_uuid = target_uuid
    THEN LogStep(logs, Call("relocate", source_uuid, target_uuid, "", "", None,
                            "SameIdentifier", None))
    ELSE \E order \in Orders(list_files(logs, source_uuid)) :
            LogStep(MoveEach(logs, source_uuid, target_uuid, order),
                    Call("relocate", source_uuid, target_uuid, "", "", None, "",
                         Lst(MovedPaths(logs, source_uuid, target_uuid, order))))

\* header_lines and conversation_lines of prune_conversation: the header is every
\* line up to and including the first one that is blank after strip().
HeaderLength(lines) ==
    LET blank == Places(lines, LAMBDA line : strip(line) = <<>>) IN
    IF blank = <<>> THEN Len(lines) ELSE blank[1]

\* conversation_lines[-keep_lines:]
LastLines(lines, keep_lines) ==
    IF keep_lines > 0
    THEN (IF keep_lines >= Len(lines) THEN lines
          ELSE SubSeq(lines, Len(lines) - keep_lines + 1, Len(lines)))
    ELSE IF keep_lines = 0 THEN lines
    ELSE SubSeq(lines, 1 - keep_lines, Len(lines))

\* The length of the longest prefix of s made of characters of `class`.
RunLength(s, class) ==
    CHOOSE n \in 0..Len(s) :
        /\ \A i \in 1..n : s[i] \in class
        /\ n = Len(s) \/ s[n + 1] \notin class

DateClass == {"0", "1", "2", "3", "4", "5", "6", "7", "8", "9", "-"}
TimeClass == {"0", "1", "2", "3", "4", "5", "6", "7", "8", "9", ":"}

\* re.match(r'\[([\d-]+ [\d:]+)\]', line).group(1), or None when there is no match.
TimestampMatch(line) ==
    IF line = <<>> \/ Head(line) # "[" THEN None
    ELSE LET rest == Tail(line)
             n == RunLength(rest, DateClass)
             after == SubSeq(rest, n + 2, Len(rest))
             m == RunLength(after, TimeClass)
         IN  IF /\ n >= 1
                /\ Len(rest) >= n + 1 /\ rest[n + 1] = " "
                /\ m >= 1
                /\ Len(after) >= m + 1 /\ after[m + 1] = "]"
             THEN Str(SubSeq(rest, 1, n + 1 + m))
             ELSE None

\* Python's truth value of an optional string argument
Truthy(x) == IsStr(x) /\ x.s # <<>>

\* the date filter over the conversation lines
KeepLine(line, start_date, end_date) ==
    LET line_date == TimestampMatch(line) IN
    \/ ~IsStr(line_date)
    \/ /\ ~(Truthy(start_date) /\ StrCmp(line_date.s, start_date.s) = "lt")
       /\ ~(Truthy(end_date) /\ StrCmp(line_date.s, end_date.s) = "gt")

RECURSIVE FilterLines(_, _, _)
FilterLines(lines, start_date, end_date) ==
    IF lines = <<>> THEN <<>>
    ELSE (IF KeepLine(Head(lines), start_date, end_date) THEN <<Head(lines)>> ELSE <<>>)
         \o FilterLines(Tail(lines), start_date, end_date)

\* pruned_content
Pruned(content, keep_lines, start_date, end_date) ==
    LET lines == split(content)
        h == HeaderLength(lines)
        header_lines == SubSeq(lines, 1, h)
        conversation_lines == SubSeq(lines, h + 1, Len(lines))
        kept == IF IsNum(keep_lines) THEN LastLines(conversation_lines, keep_lines.n)
                ELSE conversation_lines
        filtered == IF Truthy(start_date) \/ Truthy(end_date)
                    THEN FilterLines(kept, start_date, end_date) ELSE kept
    IN  join(header_lines \o filtered)

PruneConversation(u, log_name, keep_lines, start_date, end_date) ==
    LET args == Dct([log_name |-> Str(log_name), keep_lines |-> keep_lines,
                     start_date |-> start_date, end_date |-> end_date])
        file == get_log_file_path(log_name)
    IN  IF ~is_valid_uuid(u)
        THEN LogStep(logs, Call("prune", u, NoId, "", "", args, "InvalidIdentifier", None))
        ELSE IF file \notin DOMAIN logs[u] \/ logs[u][file] = <<>>
        THEN LogStep(logs, Call("prune", u, NoId, "", "", args, "", Bool(FALSE)))
        ELSE LogStep(write_text_file(logs, u, file,
                                     Pruned(logs[u][file], keep_lines, start_date, end_date)),
                     Call("prune", u, NoId, "", "", args, "", Bool(TRUE)))

(***************************************************************************)
(* Callisto, the facade over the two stores.                               *)
(***************************************************************************)
\* merge_users of the facade: the profile merge, then the move of the logs; an error of
\* the profile merge leaves the method before the logs are touched.
FacadeMergeUsers(source_uuid, target_uuid) ==
    LET done == merge_users(users, source_uuid, target_uuid) IN
    /\ calls < MaxCalls
    /\ calls' = calls + 1
    /\ users' = done.dir
    /\ IF done.err # ""
       THEN /\ logs' = logs
            /\ last' = Call("merge_identities", source_uuid, target_uuid, "", "", None,
                            done.err, None)
       ELSE \E order \in Orders(list_files(logs, source_uuid)) :
               /\ logs' = MoveEach(logs, source_uuid, target_uuid, order)
               /\ last' = Call("merge_identities", source_uuid, target_uuid, "", "", None,
                               "", done.ret)
    /\ UNCHANGED <<clock, running>>

\* The loop of the facade's store_multi_user_conversation that creates a profile for
\* each uuid that has none: the profiles it leaves, and the error create_user raises.
RECURSIVE EnsureUsers(_, _)
EnsureUsers(dir, uuids) ==
    IF uuids = <<>> THEN [dir |-> dir, err |-> ""]
    ELSE LET uuid == Head(uuids) IN
         IF is_valid_uuid(uuid) /\ uuid \in DOMAIN dir
         THEN EnsureUsers(dir, Tail(uuids))
         ELSE IF ~is_valid_uuid(uuid)
         THEN [dir |-> dir, err |-> "InvalidIdentifier"]
         ELSE EnsureUsers(write_json_file(dir, uuid, NewUser(uuid, None)), Tail(uuids))

\* store_multi_user_conversation of the facade: the loop above, then the log store's
\* store_multi_user_conversation.
FacadeStoreMulti(uuids, log_name, content) ==
    LET ensured == EnsureUsers(users, uuids)
        err == IF ensured.err # "" THEN ensured.err
               ELSE IF uuids = <<>> THEN "Empty" ELSE ""
        file == get_log_file_path(log_name)
    IN  /\ calls < MaxCalls
        /\ calls' = calls + 1
        /\ users' = ensured.dir
        /\ logs' = IF err = "" THEN StoreMulti(logs, uuids, log_name, content) ELSE logs
        /\ last' = Call("store_group", NoId, NoId, "", "", MultiArgs(uuids, log_name, content),
                        err,
                        IF err = "" THEN Lst([i \in DOMAIN uuids |-> PathOf(uuids[i], file)])
                        ELSE None)
        /\ UNCHANGED <<clock, running>>

(***************************************************************************)
(* Calls taken one file operation at a time.  A caller in the middle of a  *)
(* call has a frame in `running`: the method, the position reached, the    *)
(* arguments and the local value it carries.  The process may stop at any  *)
(* position; the files stay as they are then.                              *)
(***************************************************************************)
Frame(op, at, a, b, args, local) ==
    [op |-> op, at |-> at, a |-> a, b |-> b, args |-> args, local |-> local]

Enter(p, frame) == [q \in DOMAIN running \cup {p} |-> IF q = p THEN frame ELSE running[q]]
Leave(p) == [q \in DOMAIN running \ {p} |-> running[q]]
At(p, op, at) == p \in DOMAIN running /\ running[p].op = op /\ running[p].at = at

\* merge_users up to its last check: a call that fails a check returns at once.
MergeBegin(p, source_uuid, target_uuid) ==
    LET err == IF ~is_valid_uuid(source_uuid) \/ ~is_valid_uuid(target_uuid)
               THEN "InvalidIdentifier"
               ELSE IF source_uuid = target_uuid THEN "SameIdentifier"
               ELSE IF ~user_exists(source_uuid) THEN "NotFound" ELSE ""
    IN  /\ p \notin DOMAIN running
        /\ calls < MaxCalls
        /\ calls' = calls + 1
        /\ IF err # ""
           THEN /\ last' = Call("merge", source_uuid, target_uuid, "", "", None, err, None)
                /\ UNCHANGED running
           ELSE /\ running' = Enter(p, Frame("merge", "checked", source_uuid, target_uuid,
                                             None, None))
                /\ UNCHANGED last
        /\ UNCHANGED <<users, clock, logs>>

\* create_user(target_uuid) when the target has no profile, up to the opening of the new
\* file, which is empty until the document is written
MergeEnsureTarget(p) ==
    /\ At(p, "merge", "checked")
    /\ IF user_exists(running[p].b)
       THEN /\ running' = Enter(p, [running[p] EXCEPT !.at = "ensured"])
            /\ UNCHANGED users
       ELSE /\ users' = write_json_file(users, running[p].b, NotJson)
            /\ running' = Enter(p, [running[p] EXCEPT !.at = "creating"])
    /\ UNCHANGED <<clock, calls, last, logs>>

\* json.dump of the new target's document into the file create_user has opened
MergeCreated(p) ==
    /\ At(p, "merge", "creating")
    /\ users' = write_json_file(users, running[p].b, NewUser(running[p].b, None))
    /\ running' = Enter(p, [running[p] EXCEPT !.at = "ensured"])
    /\ UNCHANGED <<clock, calls, last, logs>>

\* the two get_user_data calls and _merge_user_data; an error leaves the method
MergeCompute(p) ==
    /\ At(p, "merge", "ensured")
    /\ LET source_data == read_json_file(users, running[p].a)
           target_data == read_json_file(users, running[p].b)
           merged_data == merge_user_data(source_data.d, target_data.d)
           err == IF ~IsDict(source_data) \/ ~IsDict(target_data) THEN "AttributeError"
                  ELSE IF Raised(merged_data) THEN "TypeError" ELSE ""
       IN  IF err # ""
           THEN /\ running' = Leave(p)
                /\ last' = Call("merge", running[p].a, running[p].b, "", "", None, err, None)
           ELSE /\ running' = Enter(p, [running[p] EXCEPT !.at = "merged", !.local = merged_data])
                /\ UNCHANGED last
    /\ UNCHANGED <<users, clock, calls, logs>>

\* write_json_file(file_path, merged_data) opens the target's file, which empties it
MergeOpen(p) ==
    /\ At(p, "merge", "merged")
    /\ users' = write_json_file(users, running[p].b, NotJson)
    /\ running' = Enter(p, [running[p] EXCEPT !.at = "opened"])
    /\ UNCHANGED <<clock, calls, last, logs>>

\* the step that removes the source where the merged document is to be written
MergeWriteRemoves(p) ==
    /\ At(p, "merge", "opened")
    /\ users' = delete_file(users, running[p].a)
    /\ running' = Enter(p, [running[p] EXCEPT !.at = "written"])
    /\ UNCHANGED <<clock, calls, last, logs>>

\* json.dump of merged_data and the closing of the file
MergeWrite(p) ==
    /\ At(p, "merge", "opened")
    /\ users' = write_json_file(users, running[p].b, running[p].local.d)
    /\ running' = Enter(p, [running[p] EXCEPT !.at = "written"])
    /\ UNCHANGED <<clock, calls, last, logs>>

\* delete_user(source_uuid)
MergeDelete(p) ==
    /\ At(p, "merge", "written")
    /\ users' = delete_file(users, running[p].a)
    /\ running' = Enter(p, [running[p] EXCEPT !.at = "deleted"])
    /\ UNCHANGED <<clock, calls, last, logs>>

\* return merged_data
MergeReturn(p) ==
    /\ At(p, "merge", "deleted")
    /\ running' = Leave(p)
    /\ last' = Call("merge", running[p].a, running[p].b, "", "", None, "", running[p].local)
    /\ UNCHANGED <<users, clock, calls, logs>>

\* What a move_conversations in progress carries: the listed names not yet handled and
\* the paths collected in moved_logs, and the name the log at hand has in the target.
Loop(rest, moved, name) == [t |-> "loop", rest |-> rest, moved |-> moved, name |-> name]
\* The logs the two users had when the call began (kept for the properties only).
Snapshot(had, held) == [t |-> "snapshot", had |-> had, held |-> held]

\* move_conversations up to the listing of the source directory: a call that fails a
\* check returns at once.
RelocateBegin(p, source_uuid, target_uuid) ==
    LET err == IF ~is_valid_uuid(source_uuid) \/ ~is_valid_uuid(target_uuid)
               THEN "InvalidIdentifier"
               ELSE IF source_uuid = target_uuid THEN "SameIdentifier" ELSE ""
    IN  /\ p \notin DOMAIN running
        /\ calls < MaxCalls
        /\ calls' = calls + 1
        /\ IF err # ""
           THEN /\ last' = Call("relocate", source_uuid, target_uuid, "", "", None, err, None)
                /\ UNCHANGED running
           ELSE /\ \E order \in Orders(list_files(logs, source_uuid)) :
                      running' = Enter(p, Frame("relocate", "listed", source_uuid, target_uuid,
                                                Snapshot(logs[source_uuid], logs[target_uuid]),
                                                Loop(order, <<>>, <<>>)))
                /\ UNCHANGED last
        /\ UNCHANGED <<users, clock, logs>>

\* one iteration up to the opening of the file in the target by shutil.copy2, which
\* leaves a file of that name empty
RelocateOpen(p) ==
    /\ At(p, "relocate", "listed")
    /\ running[p].local.rest # <<>>
    /\ LET name == TargetName(logs[running[p].b], Head(running[p].local.rest))
       IN  /\ logs' = write_text_file(logs, running[p].b, name, <<>>)
           /\ running' = Enter(p, [running[p] EXCEPT
                                     !.at = "opened",
                                     !.local = Loop(running[p].local.rest,
                                                    running[p].local.moved, name)])
    /\ UNCHANGED <<users, clock, calls, last>>

\* the text is copied and the path goes to moved_logs
RelocateCopy(p) ==
    /\ At(p, "relocate", "opened")
    /\ LET file == Head(running[p].local.rest)
           name == running[p].local.name
       IN  /\ logs' = write_text_file(logs, running[p].b, name, logs[running[p].a][file])
           /\ running' = Enter(p, [running[p] EXCEPT
                                     !.at = "copied",
                                     !.local = Loop(running[p].local.rest,
                                                    Append(running[p].local.moved,
                                                           PathOf(running[p].b, name)),
                                                    name)])
    /\ UNCHANGED <<users, clock, calls, last>>

\* os.remove(source_path)
RelocateRemove(p) ==
    /\ At(p, "relocate", "copied")
    /\ logs' = remove_file(logs, running[p].a, Head(running[p].local.rest))
    /\ running' = Enter(p, [running[p] EXCEPT
                              !.at = "listed",
                              !.local = Loop(Tail(running[p].local.rest),
                                             running[p].local.moved, <<>>)])
    /\ UNCHANGED <<users, clock, calls, last>>

\* return moved_logs
RelocateReturn(p) ==
    /\ At(p, "relocate", "listed")
    /\ running[p].local.rest = <<>>
    /\ running' = Leave(p)
    /\ last' = Call("relocate", running[p].a, running[p].b, "", "", running[p].args, "",
                    Lst(running[p].local.moved))
    /\ UNCHANGED <<users, clock, calls, logs>>

\* What a mutation in progress carries besides the document it builds: its arguments
\* and the document it read.  `no` numbers the call and `done` holds the numbers of the
\* other callers' calls that had returned when this one read (kept for the properties
\* only).
Change(key, field, val, read, no, done) ==
    [t |-> "change", key |-> key, field |-> field, val |-> val, read |-> read,
     no |-> no, done |-> done]

\* The document update_user, update_category_field or add_to_list builds from the one it
\* has read.
Mutated(op, stored, key, field, val) ==
    IF op = "update"
    THEN [data |-> UpdatedUser(stored, val.d), err |-> ""]
    ELSE IF op = "set_field"
    THEN LET withCategory == IF key \in DOMAIN stored THEN stored
                             ELSE DictSet(stored, key, Dct(EmptyDict))
         IN  IF ~IsDict(withCategory[key])
             THEN [data |-> stored, err |-> "TypeMismatch"]
             ELSE [data |-> CategoryFieldSet(withCategory, key, field, val), err |-> ""]
    ELSE LET withList == IF key \in DOMAIN stored THEN stored
                         ELSE DictSet(stored, key, Lst(<<>>))
         IN  IF ~IsList(withList[key])
             THEN [data |-> stored, err |-> "TypeMismatch"]
             ELSE [data |-> ListAppended(withList, key, val), err |-> ""]

\* A mutation up to get_user_data: a call that fails a check, or reads no document,
\* returns at once.  A caller whose last call has returned keeps its frame at "done".
MutationRead(p, op, u, key, field, val) ==
    LET err == IF ~is_valid_uuid(u) THEN "InvalidIdentifier"
               ELSE IF ~user_exists(u) THEN "NotFound"
               ELSE IF ~IsDict(read_json_file(users, u)) THEN "TypeError" ELSE ""
        others == {q \in DOMAIN running \ {p} : running[q].at = "done"}
    IN  /\ p \in DOMAIN running => running[p].at = "done"
        /\ calls < MaxCalls
        /\ calls' = calls + 1
        /\ IF err # ""
           THEN /\ last' = Call(op, u, NoId, key, field, val, err, None)
                /\ UNCHANGED running
           ELSE /\ running' = Enter(p, Frame(op, "read", u, NoId,
                                             Change(key, field, val, read_json_file(users, u),
                                                    calls + 1,
                                                    {running[q].args.no : q \in others}),
                                             None))
                /\ UNCHANGED last
        /\ UNCHANGED <<users, clock, logs>>

\* The document is built and write_json_file opens the file for writing, which empties
\* it; a mutation that finds a value of the wrong shape returns before that.
MutationOpen(p) ==
    /\ p \in DOMAIN running
    /\ running[p].op \in {"update", "set_field", "append"}
    /\ running[p].at = "read"
    /\ LET f == running[p]
           built == Mutated(f.op, f.args.read.d, f.args.key, f.args.field, f.args.val)
       IN  IF built.err # ""
           THEN /\ running' = Leave(p)
                /\ last' = Call(f.op, f.a, NoId, f.args.key, f.args.field, f.args.val,
                                built.err, None)
                /\ UNCHANGED users
           ELSE /\ users' = write_json_file(users, f.a, NotJson)
                /\ running' = Enter(p, [f EXCEPT !.at = "opened", !.local = Dct(built.data)])
                /\ UNCHANGED last
    /\ UNCHANGED <<clock, calls, logs>>

\* len(key) for the keys the profiles of the mutations carry
KeyLen(k) ==
    CASE k = "uuid" -> 4
      [] k = "created" -> 7
      [] k = "last_modified" -> 13
      [] k = "nick" -> 4
      [] k = "prefs" -> 5
      [] k = "mood" -> 4
      [] k = "topics" -> 6
      [] k = "value" -> 5
      [] k = "date_added" -> 10

RECURSIVE Digits(_)
Digits(n) == IF n < 0 THEN 1 + Digits(-n) ELSE IF n < 10 THEN 1 ELSE 1 + Digits(n \div 10)

\* The number of characters json.dump(x, file, indent=2) writes for a value nested
\* `level` deep: members and items take a line each, indented by two spaces a level.
RECURSIVE JsonLen(_, _)
RECURSIVE ItemsLen(_, _)
RECURSIVE MembersLen(_, _, _)
JsonLen(x, level) ==
    CASE x.t = "str" ->
           2 + Len(x.s) + Cardinality({i \in DOMAIN x.s : x.s[i] \in {"\"", "\\", "\n"}})
      [] x.t = "num" -> Digits(x.n)
      [] x.t = "bool" -> IF x.b THEN 4 ELSE 5
      [] x.t = "none" -> 4
      [] x.t = "list" ->
           IF x.items = <<>> THEN 2 ELSE 4 + 2 * level + ItemsLen(x.items, level + 1)
      [] x.t = "dict" ->
           IF DOMAIN x.d = {} THEN 2
           ELSE 4 + 2 * level + MembersLen(x.d, DOMAIN x.d, level + 1)
ItemsLen(items, level) ==
    IF items = <<>> THEN 0
    ELSE 2 * level + JsonLen(Head(items), level) + (IF Len(items) > 1 THEN 2 ELSE 0)
         + ItemsLen(Tail(items), level)
MembersLen(d, keys, level) ==
    IF keys = {} THEN 0
    ELSE LET k == CHOOSE key \in keys : TRUE
         IN  2 * level + KeyLen(k) + 4 + JsonLen(d[k], level) + (IF keys # {k} THEN 2 ELSE 0)
             + MembersLen(d, keys \ {k}, level)

\* What the file holds after `data` is written from its start over `content`: an empty
\* file takes the document; over a longer document the end of the old text stays behind
\* the new one, and the file is no JSON.
WrittenOver(content, data) ==
    IF content = NotJson THEN data
    ELSE IF JsonLen(Dct(data), 0) >= JsonLen(Dct(content), 0) THEN data
    ELSE NotJson

\* json.dump and the closing of the file: the text goes to the start of the file, which
\* is empty unless another caller has written since this one opened it.
MutationDump(p) ==
    /\ p \in DOMAIN running
    /\ running[p].op \in {"update", "set_field", "append"}
    /\ running[p].at = "opened"
    /\ LET f == running[p]
       IN  /\ users' = write_json_file(users, f.a, WrittenOver(users[f.a], f.local.d))
           /\ running' = Enter(p, [f EXCEPT !.at = "done"])
           /\ last' = Call(f.op, f.a, NoId, f.args.key, f.args.field, f.args.val, "", f.local)
    /\ UNCHANGED <<clock, calls, logs>>

\* The process stops in the middle of a call: the frame is gone, the files stay.
Crash(p) ==
    /\ p \in DOMAIN running
    /\ running' = Leave(p)
    /\ last' = Call("crash", running[p].a, running[p].b, running[p].op, running[p].at,
                    running[p].args, "", running[p].local)
    /\ UNCHANGED <<users, clock, calls, logs>>

\* The calendar day advances between calls.
Tick ==
    /\ calls < MaxCalls
    /\ clock' = clock + 1
    /\ calls' = calls + 1
    /\ UNCHANGED <<users, last, logs, running>>

(***************************************************************************)
(* The state machine.                                                      *)
(***************************************************************************)
Init ==
    /\ users = [u \in {} |-> EmptyDict]
    /\ clock = 1
    /\ calls = 0
    /\ last = Call("init", NoId, NoId, "", "", None, "", None)
    /\ logs = [u \in LogDirs |-> NoFiles]
    /\ running = NoCalls

Next ==
    \/ \E u \in QueryIds : UserExists(u)
    \/ \E u \in QueryIds : GetUserData(u)
    \/ \E a \in CreateArgs : CreateUser(a[1], a[2])
    \/ \E a \in UpdateArgs : UpdateUser(a[1], a[2])
    \/ \E a \in CategoryArgs : UpdateCategoryField(a[1], a[2], a[3], a[4])
    \/ \E a \in ListArgs : AddToList(a[1], a[2], a[3])
    \/ \E u \in QueryIds : DeleteUser(u)
    \/ \E p \in MergePairs : MergeUsers(p[1], p[2])
    \/ Tick

Spec == Init /\ [][Next]_vars

(***************************************************************************)
(* Merges of two profiles that create_user has just stored.                *)
(***************************************************************************)
MergeInit ==
    /\ clock = 1
    /\ \E s \in MergeExtras, t \in MergeExtras :
          users = write_json_file(write_json_file([u \in {} |-> EmptyDict], U1, NewUser(U1, s)),
                                  U2, NewUser(U2, t))
    /\ calls = 0
    /\ last = Call("init", NoId, NoId, "", "", None, "", None)
    /\ logs = [u \in LogDirs |-> NoFiles]
    /\ running = NoCalls

MergeNext ==
    \/ \E p \in MergePairs : MergeUsers(p[1], p[2])
    \/ Tick

MergeSpec == MergeInit /\ [][MergeNext]_vars

(***************************************************************************)
(* The Log Store on its own.                                               *)
(***************************************************************************)
Chat == <<"c", "h", "a", "t">>
ChatMerged == Chat \o MergedInfix \o <<"2", "0", "2", "4", "0", "1", "0", "9", "0", "0", "0", "0", "0", "0">>   \* the name a collision on day 1 makes
Hi == <<"h", "i">>
Headed == <<"=", "=", "=", " ", "x", "\n", "\n", "o", "l", "d", "\n">>
M1 == <<"m", "1">>
M2 == <<"m", "2">>
Day2 == Str(strftime(Calendar(2)))

\* (uuid, log_name, content) of store_conversation
StoreArgs == { <<U1, Chat, Hi>>, <<U2, Chat, Headed>>, <<U2, ChatMerged, Hi>>, <<BadId, Chat, Hi>> }
\* (uuid, log_name, message, with_timestamp) of append_to_conversation
AppendArgs == { <<U1, Chat, M1, TRUE>>, <<U1, Chat, M2, FALSE>>, <<U2, Chat, M1, TRUE>>,
                <<BadId, Chat, M1, TRUE>> }
\* (uuids, log_name, content) of store_multi_user_conversation
MultiStoreArgs == { <<<<>>, Chat, Hi>>, <<<<U1, U2>>, Chat, Hi>>, <<<<U1, BadId>>, Chat, Hi>>,
                    <<<<U2, U1Newline>>, Chat, Headed>> }
\* (keep_lines, start_date, end_date) of prune_conversation
PruneArgs == { <<Num(0), None, None>>, <<Num(1), None, None>>, <<Num(2), None, None>>,
               <<None, Day2, None>>, <<Num(2), None, Str(Timestamp)>>, <<Num(2), Day2, None>> }

LogInit ==
    /\ users = [u \in {} |-> EmptyDict]
    /\ clock = 1
    /\ calls = 0
    /\ last = Call("init", NoId, NoId, "", "", None, "", None)
    /\ logs = [u \in LogDirs |-> NoFiles]
    /\ running = NoCalls

LogNext ==
    \/ \E u \in {U1, BadId} : LogExists(u, Chat)
    \/ \E u \in {U1, BadId} : GetConversation(u, Chat)
    \/ \E u \in {U2, BadId} : ListConversations(u)
    \/ \E a \in StoreArgs : StoreConversation(a[1], a[2], a[3])
    \/ \E a \in AppendArgs : AppendToConversation(a[1], a[2], a[3], a[4])
    \/ \E u \in {U1, BadId} : DeleteConversation(u, Chat)
    \/ \E a \in MultiStoreArgs : StoreMultiUserConversation(a[1], a[2], a[3])
    \/ \E p \in MergePairs : MoveConversations(p[1], p[2])
    \/ \E u \in {U1, BadId}, a \in PruneArgs : PruneConversation(u, Chat, a[1], a[2], a[3])
    \/ Tick

LogSpec == LogInit /\ [][LogNext]_vars

(***************************************************************************)
(* A store opened on a directory that already holds files, some of which   *)
(* json.load cannot decode.                                                *)
(***************************************************************************)
Owners == {U1, U2}
\* what the file of u can be when the store is opened: a profile, or bytes that are no JSON
FoundFiles(u) == {NewUser(u, None), NotJson}

StoredInit ==
    /\ clock = 1
    /\ \E found \in SUBSET Owners :
          users \in {dir \in [found -> UNION {FoundFiles(u) : u \in Owners}] :
                        \A u \in found : dir[u] \in FoundFiles(u)}
    /\ calls = 0
    /\ last = Call("init", NoId, NoId, "", "", None, "", None)
    /\ logs = [u \in LogDirs |-> NoFiles]
    /\ running = NoCalls

StoredNext ==
    \/ \E u \in Owners : UserExists(u)
    \/ \E u \in Owners : GetUserData(u)
    \/ \E u \in Owners : CreateUser(u, None)
    \/ \E u \in Owners : UpdateUser(u, [nick |-> Blue])
    \/ \E u \in Owners : UpdateCategoryField(u, "prefs", "color", Blue)
    \/ \E u \in Owners : AddToList(u, "topics", Blue)
    \/ \E u \in Owners : DeleteUser(u)
    \/ \E source_uuid, target_uuid \in Owners : MergeUsers(source_uuid, target_uuid)
    \/ Tick

StoredSpec == StoredInit /\ [][StoredNext]_vars

(***************************************************************************)
(* The facade's merge, over a store that holds the profile of U1.          *)
(***************************************************************************)
FacadeInit ==
    /\ clock = 1
    /\ users = [u \in {U1} |-> NewUser(U1, None)]
    /\ calls = 0
    /\ last = Call("init", NoId, NoId, "", "", None, "", None)
    /\ logs = [u \in LogDirs |-> NoFiles]
    /\ running = NoCalls

FacadeStoreArgs == { <<U1, Chat, Hi>>, <<U1, ChatMerged, Hi>>, <<U2, Chat, Headed>> }

\* uuids of the facade's store_multi_user_conversation
FacadeMultiArgs == { <<>>, <<U1, U2>>, <<U2, BadId>>, <<U2, U1Newline>> }

FacadeNext ==
    \/ \E u \in {U1, U2} : CreateUser(u, SeedInit)
    \/ \E uuids \in FacadeMultiArgs : FacadeStoreMulti(uuids, Chat, Hi)
    \/ \E a \in FacadeStoreArgs : StoreConversation(a[1], a[2], a[3])
    \/ StoreMultiUserConversation(<<U1, U2>>, Chat, Hi)
    \/ \E p \in MergePairs : FacadeMergeUsers(p[1], p[2])
    \/ Tick

FacadeSpec == FacadeInit /\ [][FacadeNext]_vars

(***************************************************************************)
(* One caller whose merges run one file operation at a time and may stop   *)
(* at any of them; the other calls run while no merge is under way.        *)
(***************************************************************************)
CrashInit ==
    /\ users = [u \in {} |-> EmptyDict]
    /\ clock = 1
    /\ calls = 0
    /\ last = Call("init", NoId, NoId, "", "", None, "", None)
    /\ logs = [u \in LogDirs |-> NoFiles]
    /\ running = NoCalls

CrashNext ==
    \/ running = NoCalls /\ \E u \in {U1, U2} : CreateUser(u, SeedInit)
    \/ running = NoCalls /\ UpdateCategoryField(U1, "prefs", "color", Blue)
    \/ \E pair \in MergePairs : MergeBegin(1, pair[1], pair[2])
    \/ MergeEnsureTarget(1)
    \/ MergeCreated(1)
    \/ MergeCompute(1)
    \/ MergeOpen(1)
    \/ MergeWrite(1)
    \/ MergeDelete(1)
    \/ MergeReturn(1)
    \/ Crash(1)
    \/ Tick

CrashSpec == CrashInit /\ [][CrashNext]_vars

(***************************************************************************)
(* One caller whose moves of logs run one file operation at a time and may *)
(* stop at any of them; logs are stored while no move is under way.        *)
(***************************************************************************)
RelocateNext ==
    \/ running = NoCalls /\ \E a \in FacadeStoreArgs : StoreConversation(a[1], a[2], a[3])
    \/ running = NoCalls /\ StoreMultiUserConversation(<<U1, U2>>, Chat, Hi)
    \/ \E pair \in MergePairs : RelocateBegin(1, pair[1], pair[2])
    \/ RelocateOpen(1)
    \/ RelocateCopy(1)
    \/ RelocateRemove(1)
    \/ RelocateReturn(1)
    \/ Crash(1)
    \/ Tick

RelocateSpec == CrashInit /\ [][RelocateNext]_vars

(***************************************************************************)
(* Two callers change the profile of U1, each call taken one file          *)
(* operation at a time, in any interleaving.                               *)
(***************************************************************************)
Callers == {1, 2}

\* (method, key, field, value) of the mutations
RaceChanges ==
    { <<"update", "", "", Dct([nick |-> Red])>>,
      <<"set_field", "prefs", "mood", Blue>>,
      <<"append", "topics", "", Blue>>,
      <<"append", "topics", "", Red>> }

RaceNext ==
    \/ \E p \in Callers, c \in RaceChanges : MutationRead(p, c[1], U1, c[2], c[3], c[4])
    \/ \E p \in Callers : MutationOpen(p)
    \/ \E p \in Callers : MutationDump(p)
    \/ Tick

RaceSpec == FacadeInit /\ [][RaceNext]_vars

(***************************************************************************)
(* Properties.                                                             *)
(***************************************************************************)
\* The step is a call of op (a step that only advances the clock leaves `last` alone).
Called(op) == last' # last /\ last'.op = op

\* C1: after a successful create(u), exists(u) is true; after delete(u) of a valid u,
\* exists(u) is false and delete returned, without raising, true exactly when a
\* record for u existed before the call.
C1_CreateDeleteExists ==
    [][ /\ (Called("create") /\ last'.err = "")
            => (is_valid_uuid(last'.a) /\ last'.a \in DOMAIN users')
        /\ (Called("delete") /\ is_valid_uuid(last'.a))
            => /\ last'.err = ""
               /\ last'.a \notin DOMAIN users'
               /\ last'.ret = Bool(last'.a \in DOMAIN users) ]_vars

\* A delete that removed an existing record has just returned true.
C1_Witness ==
    /\ last.op = "delete"
    /\ last.err = ""
    /\ last.ret = Bool(TRUE)
    /\ ~user_exists(last.a)

\* C2: create on a uuid that already has a profile fails with AlreadyExists and
\* leaves every stored profile exactly as it was.
C2_CreateNotIdempotent ==
    [][ Called("create") =>
          /\ (is_valid_uuid(last'.a) /\ last'.a \in DOMAIN users)
                => last'.err = "AlreadyExists"
          /\ last'.err = "AlreadyExists" => users' = users ]_vars

\* A create has just been refused on an existing profile that carries more than the seed.
C2_Witness ==
    /\ last.op = "create"
    /\ last.err = "AlreadyExists"
    /\ last.a \in DOMAIN users
    /\ "prefs" \in DOMAIN users[last.a]

\* C3: a stored profile's uuid is the uuid it was created under, and its created
\* date is the day of its creation and is the same after every step that keeps
\* the profile, whatever keys the arguments of the step carry.
C3_UuidCreatedImmutable ==
    [][ \A u \in DOMAIN users' :
          /\ users'[u]["uuid"] = Str(u)
          /\ u \in DOMAIN users => users'[u]["created"] = users[u]["created"]
          /\ u \notin DOMAIN users => users'[u]["created"] = Str(Today) ]_vars

\* An update that supplied its own uuid and created keys has been applied on a
\* later day than the creation, and the stored values are not the supplied ones.
C3_Witness ==
    /\ last.op = "update"
    /\ last.err = ""
    /\ HasKey(last.val, "uuid") /\ HasKey(last.val, "created")
    /\ users[last.a]["uuid"] # last.val.d["uuid"]
    /\ users[last.a]["created"] # last.val.d["created"]
    /\ users[last.a]["created"] # Str(Today)

Mutations == {"create", "update", "set_field", "append", "merge"}

\* The profile a call writes: the target of a merge, else its uuid.
Written(call) == IF call.op = "merge" THEN call.b ELSE call.a

\* C4: after every successful mutation the stored document's last_modified is
\* the current date, whatever the arguments of the mutation contain.
C4_LastModifiedIsToday ==
    [][ \A op \in Mutations :
          (Called(op) /\ last'.err = "")
            => users'[Written(last')]["last_modified"] = Str(Today) ]_vars

\* C5: a call whose uuid (either uuid of a merge) is not of the canonical
\* 8-4-4-4-12 form fails with InvalidIdentifier and changes nothing.
C5_InvalidIdentifierRejected ==
    [][ (/\ last' # last
         /\ \/ ~MatchesPattern(last'.a)
            \/ last'.op = "merge" /\ ~MatchesPattern(last'.b))
        => (last'.err = "InvalidIdentifier" /\ users' = users) ]_vars

\* C6: a call of set_category_field on a key whose stored value is no mapping,
\* or of append_to_list on a key whose stored value is no sequence, fails with
\* TypeMismatch and changes nothing; and no call of either turns a stored mapping
\* into a sequence or a stored sequence into a mapping.
C6_CategoryOrListNeverBoth ==
    [][ /\ (/\ Called("set_field")
            /\ user_exists(last'.a)
            /\ last'.key \in DOMAIN users[last'.a]
            /\ ~IsDict(users[last'.a][last'.key]))
           => (last'.err = "TypeMismatch" /\ users' = users)
        /\ (/\ Called("append")
            /\ user_exists(last'.a)
            /\ last'.key \in DOMAIN users[last'.a]
            /\ ~IsList(users[last'.a][last'.key]))
           => (last'.err = "TypeMismatch" /\ users' = users)
        /\ (Called("set_field") \/ Called("append"))
           => \A u \in DOMAIN users \cap DOMAIN users' :
                \A k \in DOMAIN users[u] \cap DOMAIN users'[u] :
                   /\ ~(IsDict(users[u][k]) /\ IsList(users'[u][k]))
                   /\ ~(IsList(users[u][k]) /\ IsDict(users'[u][k])) ]_vars

\* An append has just been refused on a key that holds a category.
C6_Witness ==
    /\ last.op = "append"
    /\ last.err = "TypeMismatch"
    /\ last.key \in DOMAIN users[last.a]
    /\ IsDict(users[last.a][last.key])
    /\ "color" \in DOMAIN users[last.a][last.key].d

\* The fields of the category a document holds under key (none when there is no such key).
FieldsOf(doc, key) == IF key \in DOMAIN doc /\ IsDict(doc[key]) THEN doc[key].d ELSE EmptyDict

\* f and g agree on every key outside `except`.
SameOutside(f, g, except) ==
    /\ DOMAIN f \ except = DOMAIN g \ except
    /\ \A k \in DOMAIN f \ except : f[k] = g[k]

\* C7 as stated: after a successful set_category_field(u, category, field, v) with a
\* raw v, for every category and field name, the stored category[field] is the Fact
\* {value: v, date_added: today}, the category's and the document's last_modified
\* are today, and every other field and every other top-level key is unchanged.
C7_SetFieldStoresFact ==
    [][ (Called("set_field") /\ last'.err = "" /\ ~HasKey(last'.val, "value"))
        => LET u == last'.a
               c == last'.key
               f == last'.field
           IN  /\ c \in DOMAIN users'[u]
               /\ IsDict(users'[u][c])
               /\ f \in DOMAIN users'[u][c].d
               /\ users'[u][c].d[f] = Dct([value |-> last'.val, date_added |-> Str(Today)])
               /\ users'[u][c].d["last_modified"] = Str(Today)
               /\ users'[u]["last_modified"] = Str(Today)
               /\ SameOutside(FieldsOf(users[u], c), users'[u][c].d, {f, "last_modified"})
               /\ SameOutside(users[u], users'[u], {c, "last_modified"}) ]_vars

\* C7 amended: the document's last_modified is today and every other top-level key
\* but the category is unchanged; when the category is not named last_modified, its
\* own last_modified is today and its other fields are unchanged; and when the field
\* is not named last_modified either, category[field] is the Fact for v stamped today.
C7_SetFieldStoresFactUnlessLastModified ==
    [][ (Called("set_field") /\ last'.err = "" /\ ~HasKey(last'.val, "value"))
        => LET u == last'.a
               c == last'.key
               f == last'.field
           IN  /\ users'[u]["last_modified"] = Str(Today)
               /\ SameOutside(users[u], users'[u], {c, "last_modified"})
               /\ c # "last_modified"
                  => /\ c \in DOMAIN users'[u]
                     /\ IsDict(users'[u][c])
                     /\ users'[u][c].d["last_modified"] = Str(Today)
                     /\ SameOutside(FieldsOf(users[u], c), users'[u][c].d,
                                    {f, "last_modified"})
                     /\ f # "last_modified"
                        => /\ f \in DOMAIN users'[u][c].d
                           /\ users'[u][c].d[f] =
                                 Dct([value |-> last'.val, date_added |-> Str(Today)]) ]_vars

\* A raw value has just replaced an older Fact in a category that has another
\* field, on a later day than the profile's creation.
C7_Witness ==
    /\ last.op = "set_field"
    /\ last.err = ""
    /\ last.val = Blue
    /\ last.key = "prefs"
    /\ last.field = "color"
    /\ users[last.a][last.key].d["color"] = Dct([value |-> Blue, date_added |-> Str(Today)])
    /\ "total_conversations" \in DOMAIN users[last.a][last.key].d
    /\ users[last.a]["created"] # Str(Today)

\* C8: each successful append_to_list(u, name, v) leaves under name a list one
\* longer than before (an absent list counting as empty), with the earlier items
\* unchanged as its prefix and, as its last item, the Fact for v carrying a date_added.
C8_AppendAddsOne ==
    [][ (Called("append") /\ last'.err = "")
        => LET u == last'.a
               n == last'.key
               v == last'.val
               old == IF n \in DOMAIN users[u] THEN users[u][n].items ELSE <<>>
           IN  /\ n \in DOMAIN users'[u]
               /\ IsList(users'[u][n])
               /\ Len(users'[u][n].items) = Len(old) + 1
               /\ SubSeq(users'[u][n].items, 1, Len(old)) = old
               /\ LET e == users'[u][n].items[Len(old) + 1] IN
                    /\ HasKey(e, "value") /\ HasKey(e, "date_added")
                    /\ e.d["value"] = (IF HasKey(v, "value") THEN v.d["value"] ELSE v) ]_vars

MergeFailures == {"InvalidIdentifier", "SameIdentifier", "NotFound"}

\* C9: merge(source, target) fails with InvalidIdentifier when either uuid is not
\* canonical, else with SameIdentifier when the two are equal, else with NotFound
\* when source has no profile; a merge that fails in one of these ways changes nothing.
C9_MergeFailures ==
    [][ Called("merge")
        => LET a == last'.a
               b == last'.b
           IN  /\ (~MatchesPattern(a) \/ ~MatchesPattern(b)) => last'.err = "InvalidIdentifier"
               /\ (MatchesPattern(a) /\ MatchesPattern(b) /\ a = b)
                     => last'.err = "SameIdentifier"
               /\ (MatchesPattern(a) /\ MatchesPattern(b) /\ a # b /\ a \notin DOMAIN users)
                     => last'.err = "NotFound"
               /\ last'.err \in MergeFailures => users' = users ]_vars

\* C10: after a successful merge(source, target) the source has no profile, the
\* target has one, what is read back for the target is the document the call
\* returned, and every other profile is as it was.
C10_MergeOutcome ==
    [][ (Called("merge") /\ last'.err = "")
        => LET a == last'.a
               b == last'.b
           IN  /\ a \notin DOMAIN users'
               /\ is_valid_uuid(b) /\ b \in DOMAIN users'
               /\ read_json_file(users', b) = last'.ret
               /\ SameOutside(users, users', {a, b}) ]_vars

\* A merge has just succeeded into a target that holds merged content, next to a
\* third profile.
C10_Witness ==
    /\ last.op = "merge"
    /\ last.err = ""
    /\ last.a \notin DOMAIN users
    /\ "prefs" \in DOMAIN users[last.b]
    /\ DOMAIN users \ {last.b} # {}

(***************************************************************************)
(* Properties of the merge algorithm.                                      *)
(***************************************************************************)
\* a is lexicographically later than b: at the first place where they differ, a has
\* the larger character, or b has ended.
LexLater(a, b) ==
    \E i \in 1..Len(a) :
        /\ \A j \in 1..(i - 1) : j <= Len(b) /\ a[j] = b[j]
        /\ i > Len(b) \/ Ord(a[i]) > Ord(b[i])

\* A mapping with a date_added that is a string.
DatedFact(x) == HasKey(x, "date_added") /\ IsStr(x.d["date_added"])

\* The categories two documents share, and the sub-fields two categories share.
SharedCategories(src, tgt) ==
    {c \in (DOMAIN src \cap DOMAIN tgt) \ {"uuid", "created"} : IsDict(src[c]) /\ IsDict(tgt[c])}
SharedFields(src, tgt, c) == DOMAIN src[c].d \cap DOMAIN tgt[c].d

\* The step is a successful merge of two stored profiles.
Merged == Called("merge") /\ last'.err = "" /\ last'.b \in DOMAIN users

SharedLists(src, tgt) ==
    {k \in (DOMAIN src \cap DOMAIN tgt) \ {"uuid", "created"} : IsList(src[k]) /\ IsList(tgt[k])}

\* Some wrapped Fact of items has the value v.
HasValue(items, v) == \E i \in 1..Len(items) : HasKey(items[i], "value") /\ items[i].d["value"] = v

\* The place of the first wrapped Fact of items that has the value v.
FirstWith(items, v) ==
    CHOOSE j \in 1..Len(items) :
        /\ HasKey(items[j], "value") /\ items[j].d["value"] = v
        /\ ~HasValue(SubSeq(items, 1, j - 1), v)

\* C12: after a successful merge, under every key that holds a sequence in both
\* documents, the merged sequence is the target's sequence followed by wrapped Facts
\* of the source only: one for every value that some wrapped Fact of the source has
\* and no wrapped Fact of the target has, namely the first source Fact with that
\* value, in source order, and none for any other value.
C12_ListMergeDeduplicates ==
    [][ Merged =>
          LET src == users[last'.a]
              tgt == users[last'.b]
          IN  \A k \in SharedLists(src, tgt) :
                LET T == tgt[k].items
                    S == src[k].items
                    M == users'[last'.b][k].items
                    n == Len(M) - Len(T)
                    added(i) == M[Len(T) + i]
                IN  /\ n >= 0
                    /\ SubSeq(M, 1, Len(T)) = T
                    /\ \A i \in 1..n :
                          /\ HasKey(added(i), "value")
                          /\ ~HasValue(T, added(i).d["value"])
                          /\ HasValue(S, added(i).d["value"])
                          /\ added(i) = S[FirstWith(S, added(i).d["value"])]
                    /\ \A i, j \in 1..n :
                          i < j => /\ added(i).d["value"] # added(j).d["value"]
                                   /\ FirstWith(S, added(i).d["value"])
                                        < FirstWith(S, added(j).d["value"])
                    /\ \A j \in 1..Len(S) :
                          (HasKey(S[j], "value") /\ ~HasValue(T, S[j].d["value"]))
                            => \E i \in 1..n : added(i).d["value"] = S[j].d["value"] ]_vars

\* A merge has appended the first of the source's two Green Facts, and nothing else
\* of the source's five items, to a target list of a Red and a Blue Fact.
C12_Witness ==
    /\ last.op = "merge"
    /\ last.err = ""
    /\ last.b \in DOMAIN users
    /\ "topics" \in DOMAIN users[last.b]
    /\ users[last.b]["topics"] = Lst(<<Fact(Red, Jan1), Fact(Blue, Jan1), Fact(Green, Jun1)>>)

\* A mapping with a date_discussed that is a string.
DatedTopic(x) == HasKey(x, "date_discussed") /\ IsStr(x.d["date_discussed"])

\* How often x occurs in items.
Count(items, x) == Cardinality({i \in 1..Len(items) : items[i] = x})

\* M is `combined` sorted descending by date_discussed and cut to the TruncateTo most
\* recent items.
TopRecent(M, combined) ==
    LET date(x) == x.d["date_discussed"].s IN
    /\ Len(M) = (IF Len(combined) < TruncateTo THEN Len(combined) ELSE TruncateTo)
    /\ \A i, j \in 1..Len(M) : i < j => ~LexLater(date(M[j]), date(M[i]))
    /\ \A i \in 1..Len(M) : Count(M, M[i]) <= Count(combined, M[i])
    /\ \A i \in 1..Len(combined) :
          (Len(M) > 0 /\ LexLater(date(combined[i]), date(M[Len(M)])))
             => Count(M, combined[i]) = Count(combined, combined[i])

\* C13: after a successful merge, for every category in both documents and every
\* sub-field, whatever its name, that is a sequence in both: when every item of the
\* two sequences has a date_discussed, the merged sub-field is the concatenation
\* target-then-source sorted descending by date_discussed and cut to the 10 most
\* recent; otherwise it is the concatenation itself.
C13_SequencesSortedAndTruncated ==
    [][ Merged =>
          LET src == users[last'.a]
              tgt == users[last'.b]
          IN  \A c \in SharedCategories(src, tgt) :
                \A f \in SharedFields(src, tgt, c) :
                   (IsList(src[c].d[f]) /\ IsList(tgt[c].d[f]))
                     => LET combined == tgt[c].d[f].items \o src[c].d[f].items
                            merged == users'[last'.b][c].d[f]
                        IN  /\ IsList(merged)
                            /\ IF \A i \in 1..Len(combined) : DatedTopic(combined[i])
                               THEN TopRecent(merged.items, combined)
                               ELSE merged.items = combined ]_vars

\* The pair of a source and a target value under sub-field f falls under none of the
\* named rules of the category merge.
OtherShape(f, sv, tv) ==
    /\ f \notin {"last_modified", "total_conversations"}
    /\ ~(HasKey(sv, "date_added") /\ HasKey(tv, "date_added"))
    /\ ~(IsList(sv) /\ IsList(tv))

\* The pair falls under a named rule, with values of the shape the rule is written for.
NamedShape(f, sv, tv) ==
    \/ f = "last_modified"
    \/ f = "total_conversations" /\ IsNum(sv) /\ IsNum(tv)
    \/ f # "total_conversations" /\ DatedFact(sv) /\ DatedFact(tv)
    \/ /\ f # "total_conversations" /\ IsList(sv) /\ IsList(tv)
       /\ \A i \in 1..Len(sv.items) : IsDict(sv.items[i])
       /\ \A i \in 1..Len(tv.items) : IsDict(tv.items[i])

\* C20: a merge of two stored profiles in which every sub-field the two documents
\* share inside a shared category either falls under a named rule or is a collision
\* of other shapes completes successfully, and every sub-field of the second kind
\* holds the target's value afterwards.
C20_OtherCollisionsKeepTarget ==
    [][ (/\ Called("merge")
         /\ last'.err \notin MergeFailures
         /\ last'.b \in DOMAIN users
         /\ LET src == users[last'.a]
                tgt == users[last'.b]
            IN  \A c \in SharedCategories(src, tgt) : \A f \in SharedFields(src, tgt, c) :
                   \/ OtherShape(f, src[c].d[f], tgt[c].d[f])
                   \/ NamedShape(f, src[c].d[f], tgt[c].d[f]))
        => /\ last'.err = ""
           /\ LET src == users[last'.a]
                  tgt == users[last'.b]
              IN  \A c \in SharedCategories(src, tgt) : \A f \in SharedFields(src, tgt, c) :
                     OtherShape(f, src[c].d[f], tgt[c].d[f])
                        => users'[last'.b][c].d[f] = tgt[c].d[f] ]_vars

(***************************************************************************)
(* Properties of the Log Store.                                            *)
(***************************************************************************)
\* The lines of a text: the pieces its newlines end, and the unended rest if any.
TextLines(text) ==
    LET pieces == split(text) IN
    IF pieces[Len(pieces)] = <<>> THEN SubSeq(pieces, 1, Len(pieces) - 1) ELSE pieces

\* The line an append call is to add.
MessageLine(call) ==
    IF call.val.d["with_timestamp"] = Bool(TRUE)
    THEN <<"[">> \o Timestamp \o <<"]", " ">> \o call.val.d["text"].s
    ELSE call.val.d["text"].s

\* C14: a successful append to an absent log leaves a log that starts with a header,
\* and every successful append leaves the lines the log had before (the lines of a
\* fresh header for an absent log) followed by exactly one more line, the message
\* with its optional timestamp prefix.
C14_AppendAddsOneLine ==
    [][ (Called("log_append") /\ last'.err = "")
        => LET u == last'.a
               file == get_log_file_path(last'.val.d["log_name"].s)
               existed == file \in DOMAIN logs[u]
               before == IF existed THEN logs[u][file] ELSE Header
           IN  /\ file \in DOMAIN logs'[u]
               /\ ~existed => startswith(logs'[u][file], Header)
               /\ TextLines(logs'[u][file]) = TextLines(before) \o <<MessageLine(last')>> ]_vars

\* The days the clock can show.
Days == 1..(MaxCalls + 1)

\* The line is one that some append call of the model writes on some day.
IsAppendLine(line) ==
    \E a \in AppendArgs, day \in Days :
        line = (IF a[4] THEN <<"[">> \o TimestampOn(day) \o <<"]", " ">> \o a[3] ELSE a[3])

\* The text is what appends alone build: a header written on some day, then one
\* line for each append; MessageLines are those lines.
BuiltByAppends(text) ==
    LET pieces == split(text) IN
    /\ Len(pieces) >= 4
    /\ \E day \in Days : pieces[1] \o <<"\n", "\n">> = HeaderOpen \o TimestampOn(day) \o HeaderClose
    /\ pieces[2] = <<>>
    /\ pieces[Len(pieces)] = <<>>
    /\ \A i \in 3..(Len(pieces) - 1) : IsAppendLine(pieces[i])
MessageLines(text) == SubSeq(split(text), 3, Len(split(text)) - 1)

\* C15: prune(u, log, keep_lines = k) with no date bound, on a log built by appends
\* with n message lines and 0 <= k <= n, returns true and leaves the header line and
\* the blank line after it as they were, followed by exactly the last k message
\* lines, in their order.
C15_PruneKeepsLastK ==
    [][ (/\ Called("prune")
         /\ last'.err = ""
         /\ IsNum(last'.val.d["keep_lines"])
         /\ ~IsStr(last'.val.d["start_date"]) /\ ~IsStr(last'.val.d["end_date"])
         /\ get_log_file_path(last'.val.d["log_name"].s) \in DOMAIN logs[last'.a]
         /\ BuiltByAppends(logs[last'.a][get_log_file_path(last'.val.d["log_name"].s)])
         /\ LET k == last'.val.d["keep_lines"].n
                text == logs[last'.a][get_log_file_path(last'.val.d["log_name"].s)]
            IN  0 <= k /\ k <= Len(MessageLines(text)))
        => LET k == last'.val.d["keep_lines"].n
               file == get_log_file_path(last'.val.d["log_name"].s)
               text == logs[last'.a][file]
               messages == MessageLines(text)
               n == Len(messages)
           IN  /\ last'.ret = Bool(TRUE)
               /\ TextLines(logs'[last'.a][file])
                    = SubSeq(split(text), 1, 2) \o SubSeq(messages, n - k + 1, n) ]_vars

\* C16: relocate_all(source, target) never overwrites: every log that target holds
\* before a successful call is still there afterwards, with the text it had.
C16_RelocateNeverOverwrites ==
    [][ (Called("relocate") /\ last'.err = "")
        => \A file \in DOMAIN logs[last'.b] :
              /\ file \in DOMAIN logs'[last'.b]
              /\ logs'[last'.b][file] = logs[last'.b][file] ]_vars

\* C17: store_multi(uuids, log_name, content) fails with Empty when uuids is empty
\* and with InvalidIdentifier when some uuid of the list is not canonical, and a call
\* that fails writes no log; after a call that succeeds every participant holds a
\* log of that name, and all of them have the same text.
C17_StoreMultiAllOrNothing ==
    [][ Called("store_multi")
        => LET uuids == last'.val.d["uuids"].items
               file == get_log_file_path(last'.val.d["log_name"].s)
           IN  /\ uuids = <<>> => last'.err = "Empty"
               /\ (\E i \in DOMAIN uuids : ~MatchesPattern(uuids[i].s))
                     => last'.err = "InvalidIdentifier"
               /\ last'.err # "" => logs' = logs
               /\ last'.err = ""
                     => \A i, j \in DOMAIN uuids :
                           /\ file \in DOMAIN logs'[uuids[i].s]
                           /\ logs'[uuids[i].s][file] = logs'[uuids[j].s][file] ]_vars

(***************************************************************************)
(* Properties of a store that holds malformed files.                       *)
(***************************************************************************)
\* the file of u holds bytes that are no JSON
IsMalformed(u) == u \in DOMAIN users /\ users[u] = NotJson
IsProfile(u) == u \in DOMAIN users /\ users[u] # NotJson

\* C18: a profile whose stored bytes are malformed JSON is to every operation what an
\* absent profile is: exists returns false, read returns absent, create succeeds,
\* replace_fields, set_category_field, append_to_list and a merge from it fail with
\* NotFound, a merge into it gives what a merge into an absent target gives, and no
\* call fails in another way because of it.
C18_MalformedIsAbsent ==
    [][ /\ \A op \in {"exists", "read", "create", "update", "set_field", "append"} :
              (Called(op) /\ IsMalformed(last'.a))
                => /\ op = "exists" => last'.ret = Bool(FALSE)
                   /\ op = "read" => last'.ret = None /\ last'.err = ""
                   /\ op = "create" => last'.err = ""
                   /\ op \in {"update", "set_field", "append"} => last'.err = "NotFound"
        /\ (Called("merge") /\ last'.a # last'.b /\ IsMalformed(last'.a))
              => last'.err = "NotFound"
        /\ (Called("merge") /\ IsProfile(last'.a) /\ IsMalformed(last'.b))
              => /\ last'.err = ""
                 /\ last'.ret = merge_user_data(users[last'.a], NewUser(last'.b, None)) ]_vars

(***************************************************************************)
(* Properties of the facade.                                               *)
(***************************************************************************)
\* the name is the source log's own, or that name with the _merged_ infix and a suffix
ArrivedAs(name, file) ==
    name = file \/ startswith(name, remove(file, TxtExtension) \o MergedInfix)

\* C19: after a successful merge_identities(source, target) the source has no profile
\* and no log, the target's profile is the merged document, and every log the source
\* had is in the target's directory with its text, under its own name or a renamed
\* one; and a call in which the profile merge fails relocates no log.
C19_FacadeMergeMovesEverything ==
    [][ Called("merge_identities")
        => LET source == last'.a
               target == last'.b
           IN  /\ last'.err = ""
                    => /\ source \notin DOMAIN users'
                       /\ logs'[source] = NoFiles
                       /\ target \in DOMAIN users' /\ Dct(users'[target]) = last'.ret
                       /\ \A file \in DOMAIN logs[source] :
                             \E name \in DOMAIN logs'[target] :
                                /\ ArrivedAs(name, file)
                                /\ logs'[target][name] = logs[source][file]
               /\ last'.err # "" => logs' = logs ]_vars

(***************************************************************************)
(* Properties of the merge at the top level of the documents.              *)
(***************************************************************************)
\* Neither the list rule nor the mapping rule applies to the two values.
NoRule(a, b) == ~(IsList(a) /\ IsList(b)) /\ ~(IsDict(a) /\ IsDict(b))

\* C21, as stated: after a successful merge, every top-level key in both documents whose
\* two values are not both sequences and not both mappings has the target's value, and
\* every top-level key of the target alone, other than last_modified, has the target's
\* value.
C21_TargetValueWins ==
    [][ Merged =>
          LET src == users[last'.a]
              tgt == users[last'.b]
              merged == users'[last'.b]
          IN  /\ \A k \in DOMAIN src \cap DOMAIN tgt :
                    NoRule(src[k], tgt[k]) => (k \in DOMAIN merged /\ merged[k] = tgt[k])
              /\ \A k \in (DOMAIN tgt \ DOMAIN src) \ {"last_modified"} :
                    k \in DOMAIN merged /\ merged[k] = tgt[k] ]_vars

\* C21, amended: the same for every top-level key other than last_modified, which is
\* today's date whatever the two documents hold under it.
C21_TargetValueWinsButLastModified ==
    [][ Merged =>
          LET src == users[last'.a]
              tgt == users[last'.b]
              merged == users'[last'.b]
          IN  /\ \A k \in (DOMAIN src \cap DOMAIN tgt) \ {"last_modified"} :
                    NoRule(src[k], tgt[k]) => (k \in DOMAIN merged /\ merged[k] = tgt[k])
              /\ \A k \in (DOMAIN tgt \ DOMAIN src) \ {"last_modified"} :
                    k \in DOMAIN merged /\ merged[k] = tgt[k]
              /\ merged["last_modified"] = Str(Today) ]_vars

\* A merge has succeeded on a later day than the profiles were created, into the target
\* that holds a sequence under prefs, a mapping under topics and a number under nick,
\* from the source that holds an alias, and so a mapping under prefs, a sequence under
\* topics and a string under nick.
C21_Witness ==
    /\ last.op = "merge"
    /\ last.err = ""
    /\ last.b \in DOMAIN users
    /\ {"prefs", "topics", "nick", "alias"} \subseteq DOMAIN users[last.b]
    /\ IsList(users[last.b]["prefs"])
    /\ IsDict(users[last.b]["topics"])
    /\ users[last.b]["nick"] = Num(1)
    /\ users[last.b]["created"] # users[last.b]["last_modified"]

\* The header block of a text is every line up to and including the first blank one;
\* the body is the lines after it.
HeaderBlock(text) == SubSeq(TextLines(text), 1, HeaderLength(TextLines(text)))
BodyLines(text) ==
    SubSeq(TextLines(text), HeaderLength(TextLines(text)) + 1, Len(TextLines(text)))

\* the last k of the lines, all of them when there are no more than k
LastK(lines, k) == SubSeq(lines, IF k >= Len(lines) THEN 1 ELSE Len(lines) - k + 1, Len(lines))

\* The line has a leading bracketed timestamp that is below start or above end.
OutOfBounds(line, start, end) ==
    /\ IsStr(TimestampMatch(line))
    /\ \/ IsStr(start) /\ StrCmp(TimestampMatch(line).s, start.s) = "lt"
       \/ IsStr(end) /\ StrCmp(TimestampMatch(line).s, end.s) = "gt"

\* C22: a prune with keep_lines = k and a date bound, on a log that exists and is not
\* empty, leaves the header block as it was, followed by the last k body lines of the
\* log without those whose leading timestamp is below start_date or above end_date.
C22_TruncateThenFilter ==
    [][ (/\ Called("prune")
         /\ last'.ret = Bool(TRUE)
         /\ IsNum(last'.val.d["keep_lines"])
         /\ IsStr(last'.val.d["start_date"]) \/ IsStr(last'.val.d["end_date"]))
        => LET file == get_log_file_path(last'.val.d["log_name"].s)
               text == logs[last'.a][file]
               start == last'.val.d["start_date"]
               end == last'.val.d["end_date"]
               kept == LastK(BodyLines(text), last'.val.d["keep_lines"].n)
           IN  TextLines(logs'[last'.a][file])
                 = HeaderBlock(text)
                   \o SelectSeq(kept, LAMBDA line : ~OutOfBounds(line, start, end)) ]_vars

\* C26: store_group_conversation(uuids, log_name, content) of the facade fails with
\* Empty on an empty list and with InvalidIdentifier when some uuid is not canonical,
\* and a call that fails has created no profile and written no log; after a call that
\* succeeds every participant has a profile, the profiles there were are as they were,
\* and every participant holds the log with the same text.
C26_GroupStoreAllOrNothing ==
    [][ Called("store_group")
        => LET uuids == last'.val.d["uuids"].items
               file == get_log_file_path(last'.val.d["log_name"].s)
           IN  /\ uuids = <<>> => last'.err = "Empty"
               /\ (\E i \in DOMAIN uuids : ~MatchesPattern(uuids[i].s))
                     => last'.err = "InvalidIdentifier"
               /\ last'.err # "" => (users' = users /\ logs' = logs)
               /\ last'.err = ""
                     => /\ \A i \in DOMAIN uuids : uuids[i].s \in DOMAIN users'
                        /\ \A u \in DOMAIN users : u \in DOMAIN users' /\ users'[u] = users[u]
                        /\ \A i, j \in DOMAIN uuids :
                              /\ file \in DOMAIN logs'[uuids[i].s]
                              /\ logs'[uuids[i].s][file] = logs'[uuids[j].s][file] ]_vars

(***************************************************************************)
(* Properties of calls that stop half way.                                 *)
(***************************************************************************)
\* At position `at` of a merge of source into target that carries the merged document
\* `merged`, in the directory dir: the source is gone only after the delete and only
\* with the merged document stored under target, and between the write and the delete
\* both are there.
WrittenBeforeDeleted(dir, at, source, target, merged) ==
    /\ source \notin DOMAIN dir
          => (at = "deleted" /\ target \in DOMAIN dir /\ Dct(dir[target]) = merged)
    /\ at = "written"
          => (source \in DOMAIN dir /\ target \in DOMAIN dir /\ Dct(dir[target]) = merged)

\* C23: at every position of merge(source, target), and after a stop at any position,
\* the source profile is gone only if the merged document is stored under target; a
\* stop between the write and the delete leaves the source profile and the merged
\* target profile both present.
C23_MergeWritesBeforeItDeletes ==
    [][ /\ \A p \in DOMAIN running' :
              running'[p].op = "merge"
                => WrittenBeforeDeleted(users', running'[p].at, running'[p].a, running'[p].b,
                                        running'[p].local)
        /\ (Called("crash") /\ last'.key = "merge")
              => WrittenBeforeDeleted(users', last'.field, last'.a, last'.b, last'.ret) ]_vars

\* The process has stopped between the write and the delete of a merge made on a day
\* after the profiles were created: the source is there, and the target holds the
\* merged document.
C23_Witness ==
    /\ last.op = "crash"
    /\ last.key = "merge"
    /\ last.field = "written"
    /\ last.a \in DOMAIN users
    /\ last.b \in DOMAIN users
    /\ Dct(users[last.b]) = last.ret
    /\ users[last.b]["last_modified"] # users[last.b]["created"]

\* Every log of `had` is, with its text, in the source's directory under its name or
\* somewhere in the target's directory.
NoneLost(dir, source, target, had) ==
    \A file \in DOMAIN had :
        \/ file \in DOMAIN dir[source] /\ dir[source][file] = had[file]
        \/ \E name \in DOMAIN dir[target] : dir[target][name] = had[file]

\* C24: at every position of relocate_all(source, target), and after a stop at any
\* position, every log the source had when the call began is, with its text, still in
\* the source's directory or in the target's; and when the call returns, the source
\* lists no log and the target holds every log it had before, unchanged, and one more
\* log for each log the source had.
C24_RelocateLosesNoLog ==
    [][ /\ \A p \in DOMAIN running' :
              running'[p].op = "relocate"
                => NoneLost(logs', running'[p].a, running'[p].b, running'[p].args.had)
        /\ (Called("crash") /\ last'.key = "relocate")
              => NoneLost(logs', last'.a, last'.b, last'.val.had)
        /\ (Called("relocate") /\ last'.err = "")
              => /\ NoneLost(logs', last'.a, last'.b, last'.val.had)
                 /\ list_files(logs', last'.a) = {}
                 /\ \A file \in DOMAIN last'.val.held :
                       /\ file \in DOMAIN logs'[last'.b]
                       /\ logs'[last'.b][file] = last'.val.held[file]
                 /\ Cardinality(DOMAIN logs'[last'.b])
                      = Cardinality(DOMAIN last'.val.held) + Cardinality(DOMAIN last'.val.had) ]_vars

\* The document shows the change (method, key, field, value).
Has(doc, op, key, field, val) ==
    IF op = "update"
    THEN \A k \in DOMAIN val.d : k \in DOMAIN doc /\ doc[k] = val.d[k]
    ELSE IF op = "set_field"
    THEN /\ key \in DOMAIN doc
         /\ IsDict(doc[key])
         /\ field \in DOMAIN doc[key].d
         /\ HasKey(doc[key].d[field], "value")
         /\ doc[key].d[field].d.value = val
    ELSE /\ key \in DOMAIN doc
         /\ IsList(doc[key])
         /\ \E i \in DOMAIN doc[key].items :
               HasKey(doc[key].items[i], "value") /\ doc[key].items[i].d.value = val
HasChangeOf(doc, f) == Has(doc, f.op, f.args.key, f.args.field, f.args.val)

\* Caller p's write completes in this step.
Writes(p) ==
    /\ p \in DOMAIN running
    /\ running[p].at = "opened"
    /\ running'[p].at = "done"

\* The two calls ran one after the other: q's had returned before p's read the document,
\* and p's read what q's wrote.
After(p, q) ==
    /\ running[q].args.no \in running[p].args.done
    /\ running[p].args.read = running[q].local

\* p's call read the document before q's call wrote it.
Before(p, q) == running[q].args.no \notin running[p].args.done

\* The two calls make different changes.
Apart(p, q) ==
    <<running[p].op, running[p].args.key, running[p].args.field, running[p].args.val>>
        # <<running[q].op, running[q].args.key, running[q].args.field, running[q].args.val>>

\* C25: when two callers each run a mutation on the same profile and the later writer
\* read the document before the other wrote, the stored document is the later writer's:
\* it shows the later writer's change and not the other's; when the two calls ran one
\* after the other, the stored document shows both changes.
C25_LostUpdate ==
    [][ \A p \in Callers, q \in Callers :
           (/\ p # q
            /\ Writes(p)
            /\ q \in DOMAIN running
            /\ running[q].at = "done"
            /\ Apart(p, q))
             => /\ users'[U1] # NotJson
                /\ HasChangeOf(users'[U1], running[p])
                /\ (Before(p, q) /\ ~HasChangeOf(running[p].args.read.d, running[q]))
                      => /\ users'[U1] = running[p].local.d
                         /\ ~HasChangeOf(users'[U1], running[q])
                /\ After(p, q) => HasChangeOf(users'[U1], running[q]) ]_vars

====
